---- MODULE Spec2Model ----
(***************************************************************************)
(* Model of the resumable staging pipeline of rclone-s3-router.            *)
(*                                                                         *)
(* Zipper (src/all-end-to-end-files/python_zipper-v6.py): one folder of    *)
(* the folder index, its per-folder progress document, the archives in the *)
(* Staging Store, the per-batch workers, the large-file thread and main(). *)
(* The sizes of the program (batch size, pruning bound, archive cap) are   *)
(* scaled down; every Staging-Store call may fail after its retries, the   *)
(* Transfer Agent may fail, the process may be signalled or killed.        *)
(*                                                                         *)
(* Instance lock (acquire_instance_lock / release_instance_lock of the     *)
(* Zipper, the same code in the Unzipper): several instances started on    *)
(* one working directory, the lock file and its flock.                     *)
(***************************************************************************)
EXTENDS Integers, Sequences, FiniteSets, TLC

\* ---------------------------------------------------------------- sizes
\* program constants, scaled down
SPLIT_THRESHOLD == 2
MAX_PROGRESS_FILES == 2
MAX_ZIP_SIZE_BYTES == 2
MAX_PARALLEL_WORKERS == 1
MAX_ZIP_BOMB_RATIO == 2
LARGE_FILE_THRESHOLD_BYTES == 2
S3_MAX_RETRIES == 3
MAX_RETRY_DURATION == 300
MaxBackoff == 60          \* the cap of the rate-limit backoff, in seconds
MaxRetriesArg == 5        \* largest max_retries an invocation is given
MaxSplitSeen == 2         \* split_index is kept modulo MaxSplitSeen + 1
NumMappers == 2           \* Mapper instances started on one working directory
MaxIndex == 3             \* folders in the folder index of a run
ScratchWorkers == 2       \* pool processes that share WORK_DIR
MaxAttempts == 2          \* split iterations or archive attempts of one pool process
MaxItems == 2             \* items a polling loop has to work through
NumPids == 3              \* Mapper processes started on one machine
MaxNameLen == 3           \* longest folder name of the folder index, in characters

\* bounds of the exploration
MaxRuns == 2
MaxFaults == 3
MaxSplit == 1
MaxPart == 11      \* part numbers compared by the ordering property
MaxSplitNo == 2    \* split numbers compared by the ordering property
NumInstances == 3

\* Mapper outputs of the folder (read-only for the Zipper)
NormalList == <<"f1", "f2", "f3">>
LargeManifest == <<"L1">>

\* byte size of a normal file on the source remote
FileSize(f) == IF f = "f1" THEN 2 ELSE 1

Range(s) == {s[i] : i \in 1..Len(s)}
NormalFiles == Range(NormalList)
LargePaths == Range(LargeManifest)

RECURSIVE SumSize(_)
SumSize(S) == IF S = {} THEN 0
              ELSE LET f == CHOOSE x \in S : TRUE
                   IN FileSize(f) + SumSize(S \ {f})

\* get_folder_size_bytes(temp_dir): bytes of the files in the scratch directory
get_folder_size_bytes(S) == SumSize(S)

\* the batches (tasks of the process pool) of the folder: at most this many
Workers == 1..((Len(NormalList) + SPLIT_THRESHOLD - 1) \div SPLIT_THRESHOLD)
Parts == {"Full", "Part1", "Part2"}
Keys == Parts \X (0..MaxSplit)

\* instances of one component started on the working directory; every open can
\* create at most one lock file
Instances == 1..NumInstances
Inodes == 1..NumInstances

\* ---------------------------------------------------------------- archive keys as strings
\* a string is a sequence of one-character strings
Digits == <<"0", "1", "2", "3", "4", "5", "6", "7", "8", "9">>
isdigit(c) == \E i \in 1..10 : Digits[i] = c
DigitVal(c) == (CHOOSE i \in 1..10 : Digits[i] = c) - 1

\* str(n) for n >= 0
RECURSIVE DigitsOf(_)
DigitsOf(n) == IF n < 10 THEN <<Digits[n + 1]>>
               ELSE DigitsOf(n \div 10) \o <<Digits[(n % 10) + 1]>>

\* int(t) for a run of digits t
RECURSIVE IntOf(_)
IntOf(t) == IF t = <<>> THEN 0
            ELSE 10 * IntOf(SubSeq(t, 1, Len(t) - 1)) + DigitVal(t[Len(t)])

\* the characters of archive keys in code-point order: '.' < digits < upper case
\* < '_' < lower case
CodeOrder == <<".", "0", "1", "2", "3", "4", "5", "6", "7", "8", "9",
               "F", "P", "S", "_",
               "a", "f", "i", "l", "p", "r", "s", "t", "u", "z">>
Ord(c) == CHOOSE i \in 1..Len(CodeOrder) : CodeOrder[i] = c

\* str.lower() on one character
lower(c) == IF c = "F" THEN "f" ELSE IF c = "P" THEN "p" ELSE IF c = "S" THEN "s" ELSE c

\* the part of an archive key after "<prefix><sanitized-folder>_": "Part<N>.zip",
\* and "Part<N>_Split<M>.zip" for split M >= 1 of the batch
ZipSuffix == <<".", "z", "i", "p">>
KeyString(part, split) ==
    <<"P", "a", "r", "t">> \o DigitsOf(part)
    \o (IF split = 0 THEN <<>> ELSE <<"_", "S", "p", "l", "i", "t">> \o DigitsOf(split))
    \o ZipSuffix

\* re.split(r'(\d+)', s): the text before the first digit run, then alternately a
\* digit run and the text up to the next digit run (empty texts included)
RECURSIVE TakeWhile(_, _)
TakeWhile(s, digit) ==
    IF s = <<>> \/ isdigit(Head(s)) # digit THEN <<>>
    ELSE <<Head(s)>> \o TakeWhile(Tail(s), digit)

RECURSIVE re_split(_, _)
re_split(s, digit) ==
    LET t == TakeWhile(s, digit)
        rest == SubSeq(s, Len(t) + 1, Len(s))
    IN  IF rest = <<>> THEN (IF digit THEN <<t, <<>>>> ELSE <<t>>)
        ELSE <<t>> \o re_split(rest, ~digit)

\* natural_sort_key(s): [int(t) if t.isdigit() else t.lower() for t in re.split(...)];
\* the elements at even positions are the digit runs
natural_sort_key(s) ==
    LET toks == re_split(s, FALSE)
    IN  [i \in 1..Len(toks) |->
            IF i % 2 = 0 THEN [num |-> TRUE, n |-> IntOf(toks[i]), s |-> <<>>]
            ELSE [num |-> FALSE, n |-> 0,
                  s |-> [j \in 1..Len(toks[i]) |-> lower(toks[i][j])]]]

\* str < str: by code point, a proper prefix is smaller
RECURSIVE StrLess(_, _)
StrLess(a, b) ==
    IF b = <<>> THEN FALSE
    ELSE IF a = <<>> THEN TRUE
    ELSE IF Head(a) # Head(b) THEN Ord(Head(a)) < Ord(Head(b))
    ELSE StrLess(Tail(a), Tail(b))

ElemLess(x, y) == IF x.num THEN x.n < y.n ELSE StrLess(x.s, y.s)

\* list < list of Python: the first differing element decides, a proper prefix
\* is smaller
RECURSIVE ListLess(_, _)
ListLess(a, b) ==
    IF b = <<>> THEN FALSE
    ELSE IF a = <<>> THEN TRUE
    ELSE IF Head(a) # Head(b) THEN ElemLess(Head(a), Head(b))
    ELSE ListLess(Tail(a), Tail(b))

\* the order of a sort without a key function: plain string comparison
PlainLess(k1, k2) == StrLess(k1, k2)

NaturalLess(k1, k2) == ListLess(natural_sort_key(k1), natural_sort_key(k2))

\* all_keys.sort(key=natural_sort_key)
natural_sorted(all_keys) == SortSeq(all_keys, NaturalLess)

\* ---------------------------------------------------------------- state
VARIABLES
    progress,     \* the folder's Zipper progress document in the Staging Store
    archives,     \* archive key -> files of the archive object ({} = no object)
    dest,         \* large files present at the destination remote
    run,          \* number of Zipper runs started
    mainpc,       \* main(): "idle" | "join" | "done" | "killed"
    marked,       \* main() called mark_folder_complete in this run
    shutdown,     \* _shutdown_requested of the main process
    poolshut,     \* _shutdown_requested of the pool processes
    faults,       \* adverse events so far: failed Staging-Store calls, signals, kills,
                  \* downloads that were cut short or failed, failed zips and copies
    wpc,          \* per batch: "none" | "queued" | "loop" | "download" | "upload" | "mark" | "done"
    wpart,        \* per batch: its part label
    wrem,         \* per batch: remaining_files
    wsplit,       \* per batch: split_index
    wdl,          \* per batch: downloaded_files of the current split iteration
    wres,         \* per batch: "none" | "ok" | "fail" (return value of pipeline_worker)
    wver,         \* per batch: upload and head-object check of this iteration succeeded
    wbatch,       \* per batch: the batch after the resume step (history, while it runs)
    wkeys,        \* per batch: archive keys it uploaded (history, while it runs)
    lpc,          \* transfer_large_files: "none" | "start" | "loop" | "done"
    lrem,         \* transfer_large_files: remaining large files, in manifest order
    lfailed,      \* transfer_large_files: failed_large
    resumed,      \* this run follows a killed run
    keysAtKill,   \* completed_keys when the previous run was killed (history)
    uploadedRun,  \* archive keys uploaded in this run (history)
    ipc,          \* per instance: "idle" | "opened" | "running" | "unlocked" | "exited" | "refused" | "killed"
    fd,           \* per instance: inode of _instance_lock_file (0 = None)
    pathino,      \* inode the lock path names (0 = the path does not exist)
    holder,       \* per inode: instance holding the flock on it (0 = unlocked)
    ninodes,      \* inodes created so far
    calls,        \* per instance: it made a Staging-Store call
    uprogress,    \* the folder's Unzipper progress document in the Staging Store
    udest,        \* Unzipper destination: path -> archive whose content is there (Absent)
    upc,          \* process_folder: "idle" | "loop" | "mark" | "finish" | "done" | "killed"
    urem,         \* process_folder: remaining_keys not yet attempted, in order
    ukey,         \* download_unzip_upload_one: the archive key it is about to mark
    udelivered,   \* the extracted tree of ukey arrived completely (history)
    ufailed,      \* process_folder: failed_zips
    ushutdown,    \* _shutdown_requested of the Unzipper's pool process
    urun,         \* number of Unzipper runs started
    ufaults,      \* adverse events of the Unzipper so far
    skip_upload,  \* SKIP_UPLOAD of the installation
    uxsize,       \* archive key -> bytes of its extracted tree
    uattempted,   \* archive keys downloaded in this run, in order (history)
    ubad,         \* archive keys whose processing failed in this run (history)
    msource,      \* Mapper: folder -> entries the recursive listing of the source returns
    mlist,        \* folder -> its normal-file list object in the Staging Store
    mlarge,       \* folder -> its large-file manifest object in the Staging Store
    mprog,        \* folders whose Mapper progress document says "scanned"
    mpc,          \* run_mapper: "idle" | "loop" | "done" | "killed"
    mrem,         \* run_mapper: folders of the scan loop not yet handled, in order
    mfailed,      \* run_mapper: failed_folders
    mshutdown,    \* _shutdown_requested of the Mapper
    mrun,         \* number of Mapper runs started
    mfaults,      \* adverse events of the Mapper so far
    mforce,       \* force_rescan of the current run
    mscanned,     \* folders whose listing was requested in this run (history)
    mbadscan,     \* folders whose listing failed in this run (history)
    mfromscan,    \* folders whose list object was written from a listing that succeeded (history)
    rpc,          \* s3_operation_with_retry: "idle" | "loop" | "returned" | "raised" | "timeout"
    rmax,         \* max_retries of the invocation
    rattempt,     \* the loop variable attempt
    rclock,       \* seconds since start_time
    rcalls,       \* invocations of operation_func so far
    rslept,       \* the wait times slept so far, in order
    rlast,        \* what the last invocation of operation_func did
    rnormal,      \* invocations that failed with a transient error that is no rate limit
    findex,       \* the folder index: the original folder names, in order
    fpos,         \* folders of the index whose objects have been named so far
    fkeys,        \* per index position, the Staging-Store keys derived for that folder
    ppc,          \* per Mapper process: "out" | "checked" | "create" | "held" | "released" | "crashed"
    pidfile,      \* .mapper_instance.lock: NoFile, or the PID written in it
    qkind,        \* the polling loop: "download" | "large" | "upload"
    qflag,        \* _shutdown_requested of the process that runs the loop
    qpc,          \* "head" | "poll" | "terminate" | "finish" | "returned"
    qchild,       \* the Transfer Agent child: "none" | "running" | "exit0" | "exit1" | "terminated"
    qleft,        \* split iterations, large files or archives not started yet
    qseen,        \* a poll of the current item found the shutdown flag set
    qstatus,      \* the last status put on the status queue for the current item
    qfailed,      \* items that ended as a failure (False returned, failed_large, failed_zips)
    sprog,        \* the program whose pool works in WORK_DIR: "zipper" | "unzipper"
    sfs,          \* the paths that exist under WORK_DIR
    spc,          \* per pool process: "head" | "dir" | "zip" | "finally"
    sn,           \* per pool process: split iterations or archive attempts ended so far
    ecomp,        \* the component that was started: "zipper" | "unzipper" | "mapper"
    epc,          \* "import" | "lock" | "creds" | "deps" | "bucket" | "index" | "work" | "exited"
    estatus,      \* the exit status of the process, Running until it has ended
    efatal,       \* the start-up failure that ended the run, "none" without one
    eshut,        \* _shutdown_requested
    edone,        \* folders of the index worked through
    tzero,        \* the files of the batch that are zero-byte at the source
    tremaining,   \* pipeline_worker: remaining_files
    tsplit,       \* pipeline_worker: split_index modulo MaxSplitSeen + 1
    tpc,          \* "loop" | "returned"
    tresult,      \* the return value of pipeline_worker, "none" before it returns
    tshut,        \* _shutdown_requested of the pool process
    gidx,         \* main: folders of SUBFOLDERS the loop has left behind
    gpc,          \* main: "top" | "pipelines" | "finally" | "released" | "raised"
    glock,        \* _progress_lock of the main process: "none" | "live" | "dead" (its manager is shut down)
    gstop,        \* stop_event of the current folder is set
    gmonitor,     \* the status monitor of the current folder: "none" | "running"
    gmarked,      \* positions of the folders marked complete in this run
    graised,      \* an exception is on its way out of the with-block
    hpc,          \* per Mapper instance: "out" | "head" | "list" | "manifest" | "progress" | "ended"
    hheld,        \* per Mapper instance: it holds the instance lock
    hshut,        \* per Mapper instance: _shutdown_requested
    hleft,        \* per Mapper instance: folders still to scan
    hwrote,       \* the instances whose last step wrote to the Staging Store
    kskip,        \* SKIP_UPLOAD
    kpc,          \* per pool process: where it is in its archive
    kdir,         \* per pool process: its unzip_* directory exists
    ktree,        \* per pool process: the files in its unzip_* directory
    kclean,       \* per pool process: the directories its DISK WARN step still has to remove
    klisted,      \* per pool process: the files rclone copy found in the directory
    kdest,        \* per pool process: the files of its archive at the destination
    kmarked       \* the pool processes whose archive key is in processed_keys

zvars == <<progress, archives, dest, run, mainpc, marked, shutdown, poolshut, faults,
           wpc, wpart, wrem, wsplit, wdl, wres, wver, wbatch, wkeys,
           lpc, lrem, lfailed, resumed, keysAtKill, uploadedRun>>

wvars == <<wpc, wpart, wrem, wsplit, wdl, wres, wver, wbatch, wkeys>>
lvars == <<lpc, lrem, lfailed>>

lockvars == <<ipc, fd, pathino, holder, ninodes, calls>>

uvars == <<uprogress, udest, upc, urem, ukey, udelivered, ufailed, ushutdown, urun,
           ufaults, skip_upload, uxsize, uattempted, ubad>>

mvars == <<msource, mlist, mlarge, mprog, mpc, mrem, mfailed, mshutdown, mrun, mfaults,
           mforce, mscanned, mbadscan, mfromscan>>
rvars == <<rpc, rmax, rattempt, rclock, rcalls, rslept, rlast, rnormal>>
nvars == <<findex, fpos, fkeys>>
pvars == <<ppc, pidfile>>
qvars == <<qkind, qflag, qpc, qchild, qleft, qseen, qstatus, qfailed>>
svars == <<sprog, sfs, spc, sn>>
evars == <<ecomp, epc, estatus, efatal, eshut, edone>>
tvars == <<tzero, tremaining, tsplit, tpc, tresult, tshut>>
gvars == <<gidx, gpc, glock, gstop, gmonitor, gmarked, graised>>
hvars == <<hpc, hheld, hshut, hleft, hwrote>>
kvars == <<kskip, kpc, kdir, ktree, kclean, klisted, kdest, kmarked>>
oldvars == <<zvars, lockvars, uvars, mvars, rvars, nvars, pvars, qvars, svars>>
\* -- frames of the later components (begin)
yvars == <<evars, tvars, gvars, hvars, kvars>>
EFrame == UNCHANGED <<oldvars, tvars, gvars, hvars, kvars>>
TFrame == UNCHANGED <<oldvars, evars, gvars, hvars, kvars>>
GFrame == UNCHANGED <<oldvars, evars, tvars, hvars, kvars>>
HFrame == UNCHANGED <<oldvars, evars, tvars, gvars, kvars>>
KFrame == UNCHANGED <<oldvars, evars, tvars, gvars, hvars>>
\* -- frames of the later components (end)
xvars == <<rvars, nvars, pvars, qvars, svars, yvars>>
vars == <<zvars, lockvars, uvars, mvars, xvars>>

\* ---------------------------------------------------------------- progress document
\* load_progress returns {} when the object is absent; missing fields read as empty/false
EmptyProgress == [completed_keys |-> {}, completed_files |-> {},
                  large_files_done |-> {}, folder_complete |-> FALSE]

\* outcome of one Staging-Store call: TRUE = succeeded, FALSE = failed after the
\* retries of s3_operation_with_retry; Cost counts the failures of a step.
\* A behaviour has at most MaxFaults adverse events.
Cost(ok) == IF ok THEN 0 ELSE 1
FaultBudget == faults' <= MaxFaults

\* load_progress: every failure (ClientError, JSONDecodeError, other) returns {}
load_progress(ok) == IF ok THEN progress ELSE EmptyProgress

\* prune_progress_files: keeps the last max_files entries of the list; the list
\* was built by list(set(...)), so which entries are the last ones is not determined
prune_progress_files(p) ==
    IF Cardinality(p.completed_files) > MAX_PROGRESS_FILES
    THEN {[p EXCEPT !.completed_files = S] :
             S \in {T \in SUBSET p.completed_files : Cardinality(T) = MAX_PROGRESS_FILES}}
    ELSE {p}

\* save_progress: prune, then put_object; on failure the stored document is untouched
save_progress(p, ok) == IF ok THEN prune_progress_files(p) ELSE {progress}

\* the update functions of mark_part_complete, mark_large_file_complete, mark_folder_complete
mark_part_update(p, key, files) ==
    [p EXCEPT !.completed_keys = @ \cup {key}, !.completed_files = @ \cup files]
mark_large_update(p, path) == [p EXCEPT !.large_files_done = @ \cup {path}]
mark_folder_update(p) == [p EXCEPT !.folder_complete = TRUE]

\* _update_progress_safe under the progress lock: load, update, save
mark_part_complete(key, files, loadok, saveok) ==
    save_progress(mark_part_update(load_progress(loadok), key, files), saveok)
mark_large_file_complete(path, loadok, saveok) ==
    save_progress(mark_large_update(load_progress(loadok), path), saveok)
mark_folder_complete(loadok, saveok) ==
    save_progress(mark_folder_update(load_progress(loadok)), saveok)

get_completed_files(ok) == load_progress(ok).completed_files
get_completed_large_files(ok) == load_progress(ok).large_files_done
is_folder_complete(ok) == load_progress(ok).folder_complete
is_key_complete(key, ok) == key \in load_progress(ok).completed_keys

\* fetch_map / fetch_large_files: every failure returns []
fetch_map(ok) == IF ok THEN NormalList ELSE <<>>
fetch_large_files(ok) == IF ok THEN LargeManifest ELSE <<>>

\* ---------------------------------------------------------------- batching
\* [f for f in files if f not in done]
FilterSeq(s, done) == SelectSeq(s, LAMBDA f : f \notin done)

Min(a, b) == IF a < b THEN a ELSE b

\* math.ceil(len(files) / SPLIT_THRESHOLD)
NumParts(files) == (Len(files) + SPLIT_THRESHOLD - 1) \div SPLIT_THRESHOLD

\* files[i*SPLIT_THRESHOLD:(i+1)*SPLIT_THRESHOLD] for part i+1 (here i = w-1)
Batch(files, w) ==
    {files[j] : j \in ((w - 1) * SPLIT_THRESHOLD + 1)..Min(w * SPLIT_THRESHOLD, Len(files))}

\* f"Part{i+1}" if num_parts > 1 else "Full"
PartLabel(files, w) == IF NumParts(files) > 1
                       THEN (IF w = 1 THEN "Part1" ELSE "Part2")
                       ELSE "Full"

\* current_s3_key: the base key, or the base key with _Split<split_index>
CurrentKey(w) == <<wpart[w], wsplit[w]>>

\* ---------------------------------------------------------------- Unzipper: store and destination
\* the archive keys of the folder in the Staging Store
Part1 == KeyString(1, 0)
Part1_Split1 == KeyString(1, 1)
Part2 == KeyString(2, 0)
Part10 == KeyString(10, 0)
UKeys == {Part1, Part1_Split1, Part2, Part10}

\* the paths in the extracted tree of an archive
Tree(k) == IF k = Part1 THEN {"a"}
           ELSE IF k = Part1_Split1 THEN {"b"}
           ELSE IF k = Part2 THEN {"a", "b"}
           ELSE {"c"}
Paths == UNION {Tree(k) : k \in UKeys}

\* os.path.getsize(local_zip): bytes of the downloaded archive
ZipBytes(k) == IF k = Part10 THEN 2 ELSE 1

\* bytes of the extracted trees the store can hold: the tree of Part10 is 4 or 5
\* bytes, the others are as large as twice their archive
TreeSizes == {[k \in UKeys |-> IF k = Part10 THEN x ELSE 2 * ZipBytes(k)] :
                 x \in {4, 5}}

\* what the destination holds at a path no archive was delivered to
Absent == <<>>

\* the Unzipper's load_progress returns {} when the object is absent
EmptyUProgress == [processed_keys |-> {}, folder_complete |-> FALSE]

\* ---------------------------------------------------------------- Mapper: source and store
\* the folders discover_folders returns, in its order
FolderList == <<"A", "B">>
Folders == Range(FolderList)

\* the entries rclone lsjson can return for a folder: up to two files, in either
\* order, each below, at or above the threshold
SourcePaths == {"x", "y"}
SourceSizes == {LARGE_FILE_THRESHOLD_BYTES - 1, LARGE_FILE_THRESHOLD_BYTES,
                LARGE_FILE_THRESHOLD_BYTES + 1}
Entry == [Path : SourcePaths, Size : SourceSizes]
SourceListings ==
    {<<>>} \cup {<<e>> : e \in Entry}
           \cup {l \in Entry \X Entry : l[1].Path # l[2].Path}

\* the listing of folder B: a file above the threshold, then one at the threshold
ListingB == <<[Path |-> "y", Size |-> LARGE_FILE_THRESHOLD_BYTES + 1],
              [Path |-> "x", Size |-> LARGE_FILE_THRESHOLD_BYTES]>>

\* an object that is not in the Staging Store
NoObject == [exists |-> FALSE, files |-> <<>>]

\* the threshold comparison with the equal size on the large side
IsLargeInclusive(size) == size >= LARGE_FILE_THRESHOLD_BYTES

\* size > LARGE_FILE_THRESHOLD_BYTES
IsLarge(size) == size > LARGE_FILE_THRESHOLD_BYTES

\* the loop of scan_folder_with_sizes over the entries
RECURSIVE ScanLoop(_, _, _)
ScanLoop(entries, normal_files, large_files) ==
    IF entries = <<>> THEN [normal_files |-> normal_files, large_files |-> large_files]
    ELSE LET entry == Head(entries)
         IN  IF IsLarge(entry.Size)
             THEN ScanLoop(Tail(entries), normal_files,
                           Append(large_files, [path |-> entry.Path, size |-> entry.Size]))
             ELSE ScanLoop(Tail(entries), Append(normal_files, entry.Path), large_files)

\* scan_folder_with_sizes: a shutdown, a failed or timed-out listing and
\* undecodable JSON all return [], []
scan_folder_with_sizes(entries, ok) ==
    IF ok THEN ScanLoop(entries, <<>>, <<>>)
    ELSE [normal_files |-> <<>>, large_files |-> <<>>]

\* ---------------------------------------------------------------- initial state
NoWorkers(v) == [w \in Workers |-> v]

\* no batch worker exists
WorkersGone ==
    /\ wpc' = NoWorkers("none")
    /\ wpart' = NoWorkers("Full")
    /\ wrem' = NoWorkers({})
    /\ wsplit' = NoWorkers(0)
    /\ wdl' = NoWorkers({})
    /\ wres' = NoWorkers("none")
    /\ wver' = NoWorkers(FALSE)
    /\ wbatch' = NoWorkers({})
    /\ wkeys' = NoWorkers({})

ZipperInit ==
    /\ progress = EmptyProgress
    /\ archives = [k \in Keys |-> {}]
    /\ dest = {}
    /\ run = 0
    /\ mainpc = "idle"
    /\ marked = FALSE
    /\ shutdown = FALSE
    /\ poolshut = FALSE
    /\ faults = 0
    /\ wpc = NoWorkers("none")
    /\ wpart = NoWorkers("Full")
    /\ wrem = NoWorkers({})
    /\ wsplit = NoWorkers(0)
    /\ wdl = NoWorkers({})
    /\ wres = NoWorkers("none")
    /\ wver = NoWorkers(FALSE)
    /\ wbatch = NoWorkers({})
    /\ wkeys = NoWorkers({})
    /\ lpc = "none"
    /\ lrem = <<>>
    /\ lfailed = {}
    /\ resumed = FALSE
    /\ keysAtKill = {}
    /\ uploadedRun = {}
    /\ ipc = [i \in Instances |-> "idle"]
    /\ fd = [i \in Instances |-> 0]
    /\ pathino = 0
    /\ holder = [n \in Inodes |-> 0]
    /\ ninodes = 0
    /\ calls = [i \in Instances |-> FALSE]

\* the Unzipper has not run; skip and sizes: SKIP_UPLOAD and the extracted sizes
UnzipperInit(skip, sizes) ==
    /\ uprogress = EmptyUProgress
    /\ udest = [p \in Paths |-> Absent]
    /\ upc = "idle"
    /\ urem = <<>>
    /\ ukey = <<>>
    /\ udelivered = FALSE
    /\ ufailed = {}
    /\ ushutdown = FALSE
    /\ urun = 0
    /\ ufaults = 0
    /\ skip_upload = skip
    /\ uxsize = sizes
    /\ uattempted = <<>>
    /\ ubad = {}

MapperInit(entriesA) ==
    /\ msource = [f \in Folders |-> IF f = "A" THEN entriesA ELSE ListingB]
    /\ mlist = [f \in Folders |-> NoObject]
    /\ mlarge = [f \in Folders |-> NoObject]
    /\ mprog = {}
    /\ mpc = "idle"
    /\ mrem = <<>>
    /\ mfailed = {}
    /\ mshutdown = FALSE
    /\ mrun = 0
    /\ mfaults = 0
    /\ mforce = FALSE
    /\ mscanned = {}
    /\ mbadscan = {}
    /\ mfromscan = {}

RetryInit ==
    /\ rpc = "idle"
    /\ rmax = S3_MAX_RETRIES
    /\ rattempt = 0
    /\ rclock = 0
    /\ rcalls = 0
    /\ rslept = <<>>
    /\ rlast = "none"
    /\ rnormal = 0

\* a folder index of two folders
NamesInit(index) ==
    /\ findex = index
    /\ fpos = 0
    /\ fkeys = [i \in DOMAIN index |-> {}]

\* no Mapper process runs and no lock file exists
Pids == 1..NumPids
NoFile == 0
PidLockInit ==
    /\ ppc = [i \in Pids |-> "out"]
    /\ pidfile = NoFile

\* a polling loop at the head of its first iteration, no signal received yet
PollInit(kind, items) ==
    /\ qkind = kind
    /\ qflag = FALSE
    /\ qpc = "head"
    /\ qchild = "none"
    /\ qleft = items
    /\ qseen = FALSE
    /\ qstatus = "none"
    /\ qfailed = 0

\* WORK_DIR after start-up: the orphaned scratch directories are gone, what else is kept
\* there (instance lock, rclone installer) exists, every pool process is before its first item
SWorkers == 1..ScratchWorkers
Keep == <<"keep", 0, 0>>
ScratchInit(prog) ==
    /\ sprog = prog
    /\ sfs = {Keep}
    /\ spc = [w \in SWorkers |-> "head"]
    /\ sn = [w \in SWorkers |-> 0]

SmallInit ==
    /\ RetryInit
    /\ NamesInit(<<<<"e">>, <<"e", "e">>>>)
    /\ PidLockInit
    /\ PollInit("download", MaxItems)

\* a component has been started and is about to import its modules
Components == {"zipper", "unzipper", "mapper"}
Running == -1
ExitInit(comp) ==
    /\ ecomp = comp
    /\ epc = "import"
    /\ estatus = Running
    /\ efatal = "none"
    /\ eshut = FALSE
    /\ edone = 0

\* pipeline_worker at the head of its split loop with the batch as remaining_files
BatchFiles == {"f1", "f2", "f3"}
SplitInit(zero) ==
    /\ tzero = zero
    /\ tremaining = BatchFiles
    /\ tsplit = 0
    /\ tpc = "loop"
    /\ tresult = "none"
    /\ tshut = FALSE

\* main before the first folder of the index; nothing has set _progress_lock
FoldersInit ==
    /\ gidx = 0
    /\ gpc = "top"
    /\ glock = "none"
    /\ gstop = FALSE
    /\ gmonitor = "none"
    /\ gmarked = {}
    /\ graised = FALSE

\* no Mapper instance has been started
Mappers == 1..NumMappers
MapLockInit ==
    /\ hpc = [i \in Mappers |-> "out"]
    /\ hheld = [i \in Mappers |-> FALSE]
    /\ hshut = [i \in Mappers |-> FALSE]
    /\ hleft = [i \in Mappers |-> MaxIndex]
    /\ hwrote = {}

\* each pool process is in process_folder at the head of an archive whose tree is TreeFiles
TreeFiles == {"a", "b"}
TreeInit(skip) ==
    /\ kskip = skip
    /\ kpc = [w \in SWorkers |-> "head"]
    /\ kdir = [w \in SWorkers |-> FALSE]
    /\ ktree = [w \in SWorkers |-> {}]
    /\ kclean = [w \in SWorkers |-> {}]
    /\ klisted = [w \in SWorkers |-> {}]
    /\ kdest = [w \in SWorkers |-> {}]
    /\ kmarked = {}

\* -- initial states of the later components (begin)
LaterInit ==
    /\ ExitInit("zipper")
    /\ SplitInit({})
    /\ FoldersInit
    /\ MapLockInit
    /\ TreeInit(FALSE)
ERest == SplitInit({}) /\ FoldersInit /\ MapLockInit /\ TreeInit(FALSE)
TRest == ExitInit("zipper") /\ FoldersInit /\ MapLockInit /\ TreeInit(FALSE)
GRest == ExitInit("zipper") /\ SplitInit({}) /\ MapLockInit /\ TreeInit(FALSE)
HRest == ExitInit("zipper") /\ SplitInit({}) /\ FoldersInit /\ TreeInit(FALSE)
KRest == ExitInit("zipper") /\ SplitInit({}) /\ FoldersInit /\ MapLockInit
\* -- initial states of the later components (end)

ExtraInit == SmallInit /\ ScratchInit("zipper") /\ LaterInit

Init ==
    /\ ZipperInit
    /\ ExtraInit
    /\ MapperInit(<<>>)
    /\ UnzipperInit(FALSE, CHOOSE t \in TreeSizes : t[Part10] = 4)

BaseInit ==
    /\ ZipperInit
    /\ SmallInit
    /\ ScratchInit("zipper")
    /\ MapperInit(<<>>)
    /\ UnzipperInit(FALSE, CHOOSE t \in TreeSizes : t[Part10] = 4)

\* ---------------------------------------------------------------- main()
\* main() from the start of the process to the submission of the pipelines
\* of the folder (or to the end of the folder when nothing is submitted).
\* r1..r7: outcomes of the Staging-Store calls, in program order.
M_Start(r1, r2, r3, r4, r5, r6, r7) ==
    /\ mainpc \in {"idle", "done", "killed"}
    /\ run < MaxRuns
    /\ run' = run + 1
    /\ resumed' = (mainpc = "killed")
    /\ keysAtKill' = IF mainpc = "killed" THEN keysAtKill ELSE {}
    /\ marked' = FALSE
    /\ shutdown' = FALSE
    /\ poolshut' = FALSE
    /\ lrem' = <<>>
    /\ lfailed' = {}
    /\ uploadedRun' = {}
    /\ UNCHANGED <<archives, dest>>
    /\ IF is_folder_complete(r1)
       THEN \* "Skipping (fully completed)"
            /\ r2 /\ r3 /\ r4 /\ r5 /\ r6 /\ r7
            /\ faults' = faults + Cost(r1)
            /\ mainpc' = "done"
            /\ WorkersGone
            /\ lpc' = "none"
            /\ UNCHANGED progress
       ELSE LET listed == fetch_map(r2)
                large_files == fetch_large_files(r3)
                has_normal == listed # <<>>
                has_large == large_files # <<>>
                files == IF has_normal
                         THEN FilterSeq(listed, get_completed_files(r4))
                         ELSE listed
                remaining_large == IF has_large
                                   THEN FilterSeq(large_files, get_completed_large_files(r5))
                                   ELSE <<>>
            IN  /\ (~has_normal => r4)
                /\ (~has_large => r5)
                /\ IF ~has_normal /\ ~has_large
                   THEN \* "No files found on S3. Skipping."
                        /\ r6 /\ r7
                        /\ faults' = faults + Cost(r1) + Cost(r2) + Cost(r3)
                        /\ mainpc' = "done"
                        /\ WorkersGone
                        /\ lpc' = "none"
                        /\ UNCHANGED progress
                   ELSE IF files = <<>> /\ remaining_large = <<>>
                   THEN \* "All files completed!": mark_folder_complete(folder); continue
                        /\ faults' = faults + Cost(r1) + Cost(r2) + Cost(r3) + Cost(r4)
                                            + Cost(r5) + Cost(r6) + Cost(r7)
                        /\ progress' \in mark_folder_complete(r6, r7)
                        /\ mainpc' = "done"
                        /\ WorkersGone
                        /\ lpc' = "none"
                   ELSE \* submit transfer_large_files and run_zip_pipeline
                        /\ r6 /\ r7
                        /\ faults' = faults + Cost(r1) + Cost(r2) + Cost(r3) + Cost(r4)
                                            + Cost(r5)
                        /\ mainpc' = "join"
                        /\ lpc' = IF remaining_large # <<>> THEN "start" ELSE "none"
                        /\ wpc' = [w \in Workers |->
                                      IF w <= NumParts(files) THEN "queued" ELSE "none"]
                        /\ wpart' = [w \in Workers |->
                                      IF w <= NumParts(files) THEN PartLabel(files, w)
                                      ELSE "Full"]
                        /\ wrem' = [w \in Workers |->
                                      IF w <= NumParts(files) THEN Batch(files, w)
                                      ELSE {}]
                        /\ wsplit' = NoWorkers(0)
                        /\ wdl' = NoWorkers({})
                        /\ wres' = NoWorkers("none")
                        /\ wver' = NoWorkers(FALSE)
                        /\ wbatch' = NoWorkers({})
                        /\ wkeys' = NoWorkers({})
                        /\ UNCHANGED progress

\* has_failures computed from the batch results alone
HasFailuresBatchesOnly(results, failed_large) ==
    \E w \in Workers : results[w] = "fail"

\* has_failures after the futures were collected: run_zip_pipeline returned
\* any(r is False for r in results), or failed_large is not empty
HasFailures(results, failed_large) ==
    (\E w \in Workers : results[w] = "fail") \/ failed_large # {}

PipelinesFinished ==
    /\ \A w \in Workers : wpc[w] \in {"none", "done"}
    /\ lpc \in {"none", "done"}

\* main() after both futures returned: mark the folder complete unless has_failures
M_Join(r1, r2) ==
    /\ mainpc = "join"
    /\ PipelinesFinished
    /\ IF HasFailures(wres, lfailed)
       THEN /\ r1 /\ r2
            /\ UNCHANGED <<progress, marked, faults>>
       ELSE /\ progress' \in mark_folder_complete(r1, r2)
            /\ marked' = TRUE
            /\ faults' = faults + Cost(r1) + Cost(r2)
    /\ mainpc' = "done"
    /\ UNCHANGED <<archives, dest, run, shutdown, poolshut, wvars, lvars, resumed,
                   keysAtKill, uploadedRun>>

\* SIGINT/SIGTERM while the pipelines run: signal_handler sets _shutdown_requested
\* in each process that receives the signal: the main process alone, or the
\* processes of the pool as well (group)
Signal(group) ==
    /\ mainpc = "join"
    /\ ~PipelinesFinished
    /\ ~shutdown
    /\ shutdown' = TRUE
    /\ poolshut' = (group /\ \E w \in Workers : wpc[w] \notin {"none", "done"})
    /\ faults' = faults + 1
    /\ UNCHANGED <<progress, archives, dest, run, mainpc, marked, wvars, lvars,
                   resumed, keysAtKill, uploadedRun>>

\* the Zipper (main process and pool) is killed; of the run nothing survives
\* but the Staging Store and the destination
Kill ==
    /\ mainpc = "join"
    /\ mainpc' = "killed"
    /\ keysAtKill' = progress.completed_keys
    /\ WorkersGone
    /\ lpc' = "none"
    /\ lrem' = <<>>
    /\ lfailed' = {}
    /\ uploadedRun' = {}
    /\ shutdown' = FALSE
    /\ poolshut' = FALSE
    /\ resumed' = FALSE
    /\ marked' = FALSE
    /\ faults' = faults + 1
    /\ UNCHANGED <<progress, archives, dest, run>>

\* ---------------------------------------------------------------- pipeline_worker
WSet(w, pc, res, rem, dl, split, ver, batch, keys) ==
    /\ wpc' = [wpc EXCEPT ![w] = pc]
    /\ wres' = [wres EXCEPT ![w] = res]
    /\ wrem' = [wrem EXCEPT ![w] = rem]
    /\ wdl' = [wdl EXCEPT ![w] = dl]
    /\ wsplit' = [wsplit EXCEPT ![w] = split]
    /\ wver' = [wver EXCEPT ![w] = ver]
    /\ wbatch' = [wbatch EXCEPT ![w] = batch]
    /\ wkeys' = [wkeys EXCEPT ![w] = keys]

\* the worker goes on at pc within pipeline_worker
Continue(w, pc, rem, dl, split, ver, keys) ==
    /\ WSet(w, pc, "none", rem, dl, split, ver, wbatch[w], keys)
    /\ UNCHANGED <<wpart, poolshut>>

\* pipeline_worker returns r; its finally block removed the archive file and the
\* scratch directory; the pool processes end with the last task
Return(w, r) ==
    /\ WSet(w, "done", r, {}, {}, 0, FALSE, {}, {})
    /\ wpart' = [wpart EXCEPT ![w] = "Full"]
    /\ poolshut' = (poolshut /\ \E v \in Workers \ {w} : wpc[v] \notin {"none", "done"})

\* end of a split iteration: remaining files go to the next split, else success
EndIteration(w, rem, keys) ==
    IF rem # {}
    THEN Continue(w, "loop", rem, {}, wsplit[w] + 1, FALSE, keys)
    ELSE Return(w, "ok")

\* a pool process takes the next batch; resume step: drop the files of the batch
\* that are in completed_files
W_Start(w, r) ==
    /\ wpc[w] = "queued"
    /\ \A v \in Workers : v < w => wpc[v] # "queued"
    /\ Cardinality({v \in Workers : wpc[v] \notin {"none", "queued", "done"}})
          < MAX_PARALLEL_WORKERS
    /\ faults' = faults + Cost(r)
    /\ LET original_file_list == wrem[w] \ get_completed_files(r)
       IN  IF original_file_list = {}
           THEN Return(w, "ok")
           ELSE /\ WSet(w, "loop", "none", original_file_list, {}, 0, FALSE,
                        original_file_list, {})
                /\ UNCHANGED <<wpart, poolshut>>
    /\ UNCHANGED <<progress, archives, dest, run, mainpc, marked, shutdown, lvars,
                   resumed, keysAtKill, uploadedRun>>

\* head of the split loop: shutdown check, current key, is_key_complete
W_Loop(w, r) ==
    /\ wpc[w] = "loop"
    /\ wsplit[w] <= MaxSplit
    /\ IF poolshut
       THEN /\ r
            /\ Return(w, "fail")
            /\ UNCHANGED faults
       ELSE /\ faults' = faults + Cost(r)
            /\ IF is_key_complete(CurrentKey(w), r)
               THEN \* "Split done (JSON)": split_index += 1; continue
                    Continue(w, "loop", wrem[w], {}, wsplit[w] + 1, FALSE, wkeys[w])
               ELSE \* scratch directory, file list, rclone copy started
                    Continue(w, "download", wrem[w], {}, wsplit[w], FALSE, wkeys[w])
    /\ UNCHANGED <<progress, archives, dest, run, mainpc, marked, shutdown, lvars,
                   resumed, keysAtKill, uploadedRun>>

\* the ways the polling loop of the download can end
DownloadEnds == {"exit0", "exit1", "disk", "size", "shutdown"}

\* The download of the current split iteration, from Popen to the zip step.
\* dl: the non-empty files in the scratch directory when the download ended
\* (any part of remaining_files: the Transfer Agent decides what arrived);
\* end: the process exited by itself (code 0 or not) between two polls, or a poll
\* found the shutdown flag, the disk above DISK_LIMIT_PERCENT, or the scratch
\* directory above MAX_ZIP_SIZE_BYTES and killed it;
\* zipok: space check, zip -0 and integrity test passed.
W_Download(w, dl, end, zipok) ==
    /\ wpc[w] = "download"
    /\ dl \subseteq wrem[w]
    /\ end = "shutdown" => poolshut
    /\ end \in {"disk", "size"} => ~poolshut
    /\ end = "size" => get_folder_size_bytes(dl) > MAX_ZIP_SIZE_BYTES
    /\ LET new_remaining == wrem[w] \ dl
       IN  IF end = "shutdown"
           THEN zipok /\ Return(w, "fail")
           ELSE IF dl # {}
           THEN IF zipok
                THEN Continue(w, "upload", new_remaining, dl, wsplit[w], FALSE, wkeys[w])
                ELSE Return(w, "fail")
           ELSE /\ zipok
                /\ IF end = "exit1"
                   THEN Return(w, "fail")
                   ELSE EndIteration(w, new_remaining, wkeys[w])
    /\ faults' = faults + Cost(end \in {"exit0", "shutdown"} /\ dl = wrem[w] /\ zipok)
    /\ UNCHANGED <<progress, archives, dest, run, mainpc, marked, shutdown, lvars,
                   resumed, keysAtKill, uploadedRun>>

\* the worker goes on to mark_part_complete as soon as the upload succeeded
UploadOnly(upok, headok) == upok

\* the worker goes on to mark_part_complete iff upload and head_object succeeded
UploadVerified(upok, headok) == upok /\ headok

\* s3.upload_file under the current key, then s3.head_object on it
W_Upload(w, upok, headok) ==
    /\ wpc[w] = "upload"
    /\ (~upok => headok)
    /\ faults' = faults + Cost(upok) + Cost(headok)
    /\ IF upok
       THEN /\ archives' = [archives EXCEPT ![CurrentKey(w)] = wdl[w]]
            /\ uploadedRun' = uploadedRun \cup {CurrentKey(w)}
       ELSE UNCHANGED <<archives, uploadedRun>>
    /\ IF UploadVerified(upok, headok)
       THEN Continue(w, "mark", wrem[w], wdl[w], wsplit[w], upok /\ headok,
                     wkeys[w] \cup {CurrentKey(w)})
       ELSE Return(w, "fail")
    /\ UNCHANGED <<progress, dest, run, mainpc, marked, shutdown, lvars, resumed,
                   keysAtKill>>

\* mark_part_complete(folder, current_s3_key, downloaded_files); the worker goes on
\* whether it returned True ("Saved to S3") or False ("progress save failed")
W_Mark(w, r1, r2) ==
    /\ wpc[w] = "mark"
    /\ faults' = faults + Cost(r1) + Cost(r2)
    /\ progress' \in mark_part_complete(CurrentKey(w), wdl[w], r1, r2)
    /\ EndIteration(w, wrem[w], wkeys[w])
    /\ UNCHANGED <<archives, dest, run, mainpc, marked, shutdown, lvars, resumed,
                   keysAtKill, uploadedRun>>

\* ---------------------------------------------------------------- transfer_large_files
L_Start(r1, r2) ==
    /\ lpc = "start"
    /\ LET large_files == fetch_large_files(r1)
           remaining == FilterSeq(large_files, get_completed_large_files(r2))
       IN  /\ (large_files = <<>> => r2)
           /\ faults' = faults + Cost(r1) + Cost(r2)
           /\ IF large_files = <<>> \/ remaining = <<>>
              THEN /\ lpc' = "done"
                   /\ UNCHANGED lrem
              ELSE /\ lpc' = "loop"
                   /\ lrem' = remaining
    /\ UNCHANGED <<progress, archives, dest, run, mainpc, marked, shutdown, poolshut,
                   wvars, lfailed, resumed, keysAtKill, uploadedRun>>

\* one iteration of the loop over the remaining large files: rclone copyto with
\* return code rc, then mark_large_file_complete on success
L_Copy(rc, r1, r2) ==
    /\ lpc = "loop"
    /\ IF shutdown
       THEN \* "Shutdown requested": break; failed_large is returned as it is
            /\ rc = 0 /\ r1 /\ r2
            /\ lpc' = "done"
            /\ lrem' = <<>>
            /\ UNCHANGED <<progress, dest, lfailed, faults>>
       ELSE LET file_path == Head(lrem)
            IN  /\ IF rc = 0
                   THEN /\ dest' = dest \cup {file_path}
                        /\ faults' = faults + Cost(r1) + Cost(r2)
                        /\ progress' \in mark_large_file_complete(file_path, r1, r2)
                        /\ lfailed' = IF r2 THEN lfailed ELSE lfailed \cup {file_path}
                   ELSE /\ r1 /\ r2
                        /\ lfailed' = lfailed \cup {file_path}
                        /\ faults' = faults + 1
                        /\ UNCHANGED <<progress, dest>>
                /\ lrem' = Tail(lrem)
                /\ lpc' = IF Tail(lrem) = <<>> THEN "done" ELSE "loop"
    /\ UNCHANGED <<archives, run, mainpc, marked, shutdown, poolshut, wvars, resumed,
                   keysAtKill, uploadedRun>>

\* ---------------------------------------------------------------- instance lock
\* acquire_instance_lock, first half: open(lock_path, 'w') opens the file the
\* path names, or creates a new file when the path does not exist
I_Open(i) ==
    /\ ipc[i] = "idle"
    /\ IF pathino = 0
       THEN /\ ninodes' = ninodes + 1
            /\ pathino' = ninodes + 1
       ELSE UNCHANGED <<ninodes, pathino>>
    /\ fd' = [fd EXCEPT ![i] = pathino']
    /\ ipc' = [ipc EXCEPT ![i] = "opened"]
    /\ UNCHANGED <<holder, calls>>

\* acquire_instance_lock, second half: flock(LOCK_EX | LOCK_NB) on the open file;
\* on IOError/OSError the file is closed and False returned, and main() returns
I_Flock(i) ==
    /\ ipc[i] = "opened"
    /\ IF holder[fd[i]] = 0
       THEN /\ holder' = [holder EXCEPT ![fd[i]] = i]
            /\ ipc' = [ipc EXCEPT ![i] = "running"]
            /\ UNCHANGED fd
       ELSE /\ ipc' = [ipc EXCEPT ![i] = "refused"]
            /\ fd' = [fd EXCEPT ![i] = 0]
            /\ UNCHANGED holder
    /\ UNCHANGED <<pathino, ninodes, calls>>

\* the body of main() between acquire and release: Staging-Store calls
I_Work(i) ==
    /\ ipc[i] = "running"
    /\ ~calls[i]
    /\ calls' = [calls EXCEPT ![i] = TRUE]
    /\ UNCHANGED <<ipc, fd, pathino, holder, ninodes>>

\* release_instance_lock, first half: flock(LOCK_UN) and close
I_Unlock(i) ==
    /\ ipc[i] = "running"
    /\ holder' = [holder EXCEPT ![fd[i]] = 0]
    /\ fd' = [fd EXCEPT ![i] = 0]
    /\ ipc' = [ipc EXCEPT ![i] = "unlocked"]
    /\ UNCHANGED <<pathino, ninodes, calls>>

\* release_instance_lock, second half: os.remove(lock_path) if the path exists
I_Remove(i) ==
    /\ ipc[i] = "unlocked"
    /\ pathino' = 0
    /\ ipc' = [ipc EXCEPT ![i] = "exited"]
    /\ UNCHANGED <<fd, holder, ninodes, calls>>

\* the instance is killed while it runs: the kernel closes the file, which drops
\* the flock; the lock file stays
I_Kill(i) ==
    /\ ipc[i] = "running"
    /\ holder' = [holder EXCEPT ![fd[i]] = 0]
    /\ fd' = [fd EXCEPT ![i] = 0]
    /\ ipc' = [ipc EXCEPT ![i] = "killed"]
    /\ UNCHANGED <<pathino, ninodes, calls>>

LockNext ==
    \/ \E i \in Instances : I_Open(i) /\ UNCHANGED <<zvars, uvars, mvars, xvars>>
    \/ \E i \in Instances : I_Flock(i) /\ UNCHANGED <<zvars, uvars, mvars, xvars>>
    \/ \E i \in Instances : I_Work(i) /\ UNCHANGED <<zvars, uvars, mvars, xvars>>
    \/ \E i \in Instances : I_Unlock(i) /\ UNCHANGED <<zvars, uvars, mvars, xvars>>
    \/ \E i \in Instances : I_Remove(i) /\ UNCHANGED <<zvars, uvars, mvars, xvars>>
    \/ \E i \in Instances : I_Kill(i) /\ UNCHANGED <<zvars, uvars, mvars, xvars>>

SpecLock == Init /\ [][LockNext]_vars

\* ---------------------------------------------------------------- Unzipper
UFaultBudget == ufaults' <= MaxFaults

\* load_progress of the Unzipper: every failure returns {}
unzip_load_progress(ok) == IF ok THEN uprogress ELSE EmptyUProgress

\* save_progress of the Unzipper: put_object; on failure the stored document is untouched
unzip_save_progress(p, ok) == IF ok THEN p ELSE uprogress

\* _update_progress_safe with the update functions of mark_zip_processed and of
\* the Unzipper's mark_folder_complete
mark_zip_processed(key, loadok, saveok) ==
    unzip_save_progress([unzip_load_progress(loadok) EXCEPT !.processed_keys = @ \cup {key}],
                        saveok)
unzip_mark_folder_complete(loadok, saveok) ==
    unzip_save_progress([unzip_load_progress(loadok) EXCEPT !.folder_complete = TRUE], saveok)

unzip_is_folder_complete(ok) == unzip_load_progress(ok).folder_complete
get_processed_keys(ok) == unzip_load_progress(ok).processed_keys

\* the orders in which the paginator can return the archive keys of the folder
Listings == {l \in [1..Cardinality(UKeys) -> UKeys] :
                \A i, j \in 1..Cardinality(UKeys) : i # j => l[i] # l[j]}

\* the order in which list_s3_zips_for_folder puts each listing, tabulated
SortedListing == {<<l, natural_sorted(l)>> : l \in Listings}
SortedKeys(all_keys) == (CHOOSE p \in SortedListing : p[1] = all_keys)[2]

\* list_s3_zips_for_folder: every failure of the listing returns []
list_s3_zips_for_folder(all_keys, ok) == IF ok THEN SortedKeys(all_keys) ELSE <<>>

\* the zip-bomb test on the truncated ratio that the ERROR message prints
BombDetectedTruncated(total_size, file_size) ==
    file_size > 0 /\ (total_size \div file_size) > MAX_ZIP_BOMB_RATIO

\* the zip-bomb test: file_size_mb > 0 and total_size_mb / file_size_mb > MAX_ZIP_BOMB_RATIO
BombDetected(total_size, file_size) ==
    file_size > 0 /\ total_size > MAX_ZIP_BOMB_RATIO * file_size

\* rclone copy of the paths got of archive k to the destination: a path that is
\* absent is written; a path that is present is rewritten unless the Transfer
\* Agent takes it for identical (replace = FALSE)
RcloneCopy(d, k, got, replace) ==
    [p \in Paths |-> IF p \in got /\ (d[p] = Absent \/ replace) THEN k ELSE d[p]]

\* cp -r -n (or merge_folders_safe) of the paths got of archive k: existing paths are kept
CpNoClobber(d, k, got) ==
    [p \in Paths |-> IF p \in got /\ d[p] = Absent THEN k ELSE d[p]]

\* main() and process_folder of the Unzipper up to the loop over remaining_keys.
\* r0: fetch_folder_list, r1: is_folder_complete, r2: the listing,
\* r3: get_processed_keys, r4/r5: load and save of mark_folder_complete
U_Start ==
    /\ upc \in {"idle", "done", "killed"}
    /\ urun < MaxRuns
    /\ urun' = urun + 1
    /\ ushutdown' = FALSE
    /\ ufailed' = {}
    /\ uattempted' = <<>>
    /\ ubad' = {}
    /\ ukey' = <<>>
    /\ udelivered' = FALSE
    /\ UNCHANGED <<udest, skip_upload, uxsize>>
    /\ \E r0 \in BOOLEAN :
         IF ~r0
         THEN \* "No folders to process"
              /\ ufaults' = ufaults + 1
              /\ upc' = "done"
              /\ urem' = <<>>
              /\ UNCHANGED uprogress
         ELSE \E r1 \in BOOLEAN :
           IF unzip_is_folder_complete(r1)
           THEN \* "Fully done (resumed)"
                /\ ufaults' = ufaults + Cost(r1)
                /\ upc' = "done"
                /\ urem' = <<>>
                /\ UNCHANGED uprogress
           ELSE \E all_keys \in Listings, r2, r3 \in BOOLEAN :
             LET zip_keys == list_s3_zips_for_folder(all_keys, r2)
                 processed == get_processed_keys(r3)
                 remaining_keys == FilterSeq(zip_keys, processed)
             IN  IF zip_keys = <<>>
                 THEN \* "No zips found on S3"
                      /\ r3
                      /\ ufaults' = ufaults + Cost(r1) + Cost(r2)
                      /\ upc' = "done"
                      /\ urem' = <<>>
                      /\ UNCHANGED uprogress
                 ELSE IF remaining_keys = <<>>
                 THEN \* "All zips already processed": mark_folder_complete
                      \E r4, r5 \in BOOLEAN :
                        /\ ufaults' = ufaults + Cost(r1) + Cost(r2) + Cost(r3)
                                              + Cost(r4) + Cost(r5)
                        /\ uprogress' = unzip_mark_folder_complete(r4, r5)
                        /\ upc' = "done"
                        /\ urem' = <<>>
                 ELSE /\ ufaults' = ufaults + Cost(r1) + Cost(r2) + Cost(r3)
                      /\ upc' = "loop"
                      /\ urem' = remaining_keys
                      /\ UNCHANGED uprogress

\* the ways download_unzip_upload_one can go up to the delivery of the tree
UnzipOutcomes == {"ok", "dlfail", "corrupt", "unzipfail", "copyfail"}

\* One iteration of the loop of process_folder up to mark_zip_processed:
\* shutdown check, then download_unzip_upload_one for the next key: download,
\* integrity test, unzip, zip-bomb test and delivery of the extracted tree.
\* out: what went wrong, if anything; got: the paths that reached the
\* destination when the copy failed; replace: see RcloneCopy.
U_Process(out, got, replace) ==
    /\ upc = "loop"
    /\ LET s3_key == Head(urem)
           rest == Tail(urem)
           failed == /\ ufailed' = ufailed \cup {s3_key}
                     /\ ubad' = ubad \cup {s3_key}
                     /\ upc' = IF rest = <<>> THEN "finish" ELSE "loop"
                     /\ UNCHANGED <<ukey, udelivered>>
       IN  IF ushutdown
           THEN \* "Shutdown requested": return
                /\ out = "ok" /\ got = {} /\ ~replace
                /\ upc' = "done"
                /\ UNCHANGED <<udest, urem, ukey, udelivered, ufailed, uattempted, ubad,
                               ufaults>>
           ELSE /\ got \subseteq Tree(s3_key)
                /\ (out # "copyfail" => got = Tree(s3_key))
                /\ (out = "copyfail" => got # Tree(s3_key))
                /\ urem' = rest
                /\ uattempted' = Append(uattempted, s3_key)
                /\ ufaults' = ufaults + Cost(out = "ok")
                /\ IF out \in {"dlfail", "corrupt", "unzipfail"}
                   THEN ~replace /\ failed /\ UNCHANGED udest
                   ELSE IF BombDetected(uxsize[s3_key], ZipBytes(s3_key))
                   THEN \* "Zip bomb detected!"
                        out = "ok" /\ ~replace /\ failed /\ UNCHANGED udest
                   ELSE IF skip_upload
                   THEN \* cp -r -n with check=False: its result is not looked at
                        /\ ~replace
                        /\ udest' = CpNoClobber(udest, s3_key, got)
                        /\ upc' = "mark"
                        /\ ukey' = s3_key
                        /\ udelivered' = (out = "ok")
                        /\ ubad' = IF out = "ok" THEN ubad ELSE ubad \cup {s3_key}
                        /\ UNCHANGED ufailed
                   ELSE \* rclone copy; a return code other than 0 is a failure
                        /\ udest' = RcloneCopy(udest, s3_key, got, replace)
                        /\ IF out = "ok"
                           THEN /\ upc' = "mark"
                                /\ ukey' = s3_key
                                /\ udelivered' = TRUE
                                /\ UNCHANGED <<ufailed, ubad>>
                           ELSE failed
    /\ UNCHANGED <<uprogress, ushutdown, urun, skip_upload, uxsize>>

\* mark_zip_processed(folder_name, s3_key); download_unzip_upload_one returns True
\* whether the progress was saved or not
U_Mark(r1, r2) ==
    /\ upc = "mark"
    /\ ufaults' = ufaults + Cost(r1) + Cost(r2)
    /\ uprogress' = mark_zip_processed(ukey, r1, r2)
    /\ upc' = IF urem = <<>> THEN "finish" ELSE "loop"
    /\ ukey' = <<>>
    /\ udelivered' = FALSE
    /\ UNCHANGED <<udest, urem, ufailed, ushutdown, urun, skip_upload, uxsize, uattempted,
                   ubad>>

\* the end of process_folder: mark the folder complete unless failed_zips
U_Finish(r1, r2) ==
    /\ upc = "finish"
    /\ IF ufailed # {}
       THEN /\ r1 /\ r2
            /\ UNCHANGED <<uprogress, ufaults>>
       ELSE /\ uprogress' = unzip_mark_folder_complete(r1, r2)
            /\ ufaults' = ufaults + Cost(r1) + Cost(r2)
    /\ upc' = "done"
    /\ UNCHANGED <<udest, urem, ukey, udelivered, ufailed, ushutdown, urun, skip_upload,
                   uxsize, uattempted, ubad>>

\* SIGINT/SIGTERM reaches the pool process of the folder
U_Signal ==
    /\ upc \in {"loop", "mark"}
    /\ ~ushutdown
    /\ ushutdown' = TRUE
    /\ ufaults' = ufaults + 1
    /\ UNCHANGED <<uprogress, udest, upc, urem, ukey, udelivered, ufailed, urun,
                   skip_upload, uxsize, uattempted, ubad>>

\* the Unzipper is killed; the Staging Store and the destination survive
U_Kill ==
    /\ upc \in {"loop", "mark", "finish"}
    /\ upc' = "killed"
    /\ urem' = <<>>
    /\ ukey' = <<>>
    /\ udelivered' = FALSE
    /\ ufailed' = {}
    /\ ushutdown' = FALSE
    /\ uattempted' = <<>>
    /\ ubad' = {}
    /\ ufaults' = ufaults + 1
    /\ UNCHANGED <<uprogress, udest, urun, skip_upload, uxsize>>

UnzipNext ==
    \/ U_Start /\ UFaultBudget /\ UNCHANGED <<zvars, lockvars, mvars, xvars>>
    \/ \E out \in UnzipOutcomes, got \in SUBSET Paths, replace \in BOOLEAN :
           U_Process(out, got, replace) /\ UFaultBudget /\ UNCHANGED <<zvars, lockvars, mvars, xvars>>
    \/ \E r1, r2 \in BOOLEAN : U_Mark(r1, r2) /\ UFaultBudget /\ UNCHANGED <<zvars, lockvars, mvars, xvars>>
    \/ \E r1, r2 \in BOOLEAN : U_Finish(r1, r2) /\ UFaultBudget /\ UNCHANGED <<zvars, lockvars, mvars, xvars>>
    \/ U_Signal /\ UFaultBudget /\ UNCHANGED <<zvars, lockvars, mvars, xvars>>
    \/ U_Kill /\ UFaultBudget /\ UNCHANGED <<zvars, lockvars, mvars, xvars>>

\* the Unzipper on every installation: SKIP_UPLOAD or not, Part10 a bomb or not
UnzipInit ==
    /\ ZipperInit
    /\ ExtraInit
    /\ MapperInit(<<>>)
    /\ \E skip \in BOOLEAN, sizes \in TreeSizes : UnzipperInit(skip, sizes)

SpecUnzip == UnzipInit /\ [][UnzipNext]_vars

\* ---------------------------------------------------------------- Mapper
MFaultBudget == mfaults' <= MaxFaults

\* check_list_exists: head_object without retry; every error returns False
check_list_exists(f, ok) == ok /\ mlist[f].exists

\* the number of FALSE values of a function into BOOLEAN
Failures(h) == Cardinality({f \in DOMAIN h : ~h[f]})

\* run_mapper up to the scan loop: connection test, discover_folders,
\* save_folder_index (startok) and the resume check with one head_object per
\* folder (hok)
Map_Start(force, startok, hok) ==
    /\ mpc \in {"idle", "done", "killed"}
    /\ mrun < MaxRuns
    /\ mrun' = mrun + 1
    /\ mforce' = force
    /\ mshutdown' = FALSE
    /\ mfailed' = {}
    /\ mscanned' = {}
    /\ mbadscan' = {}
    /\ UNCHANGED <<msource, mlist, mlarge, mprog, mfromscan>>
    /\ IF ~startok
       THEN /\ \A f \in Folders : hok[f]
            /\ mfaults' = mfaults + 1
            /\ mpc' = "done"
            /\ mrem' = <<>>
       ELSE IF force
       THEN /\ \A f \in Folders : hok[f]
            /\ mfaults' = mfaults
            /\ mpc' = "loop"
            /\ mrem' = FolderList
       ELSE LET remaining == SelectSeq(FolderList, LAMBDA f : ~check_list_exists(f, hok[f]))
            IN  /\ mfaults' = mfaults + Failures(hok)
                /\ mrem' = remaining
                /\ mpc' = IF remaining = <<>> THEN "done" ELSE "loop"

\* an upload whose failure leaves an object with an empty body behind
upload_file_list_truncating(f, normal_files, ok) ==
    [mlist EXCEPT ![f] = [exists |-> TRUE, files |-> IF ok THEN normal_files ELSE <<>>]]

\* upload_file_list: put_object of the list, of an empty body for an empty list
upload_file_list(f, normal_files, ok) ==
    IF ok THEN [mlist EXCEPT ![f] = [exists |-> TRUE, files |-> normal_files]] ELSE mlist

\* upload_large_files_list: nothing is written for an empty list
upload_large_files_list(f, large_files, ok) ==
    IF large_files # <<>> /\ ok
    THEN [mlarge EXCEPT ![f] = [exists |-> TRUE, files |-> large_files]]
    ELSE mlarge

\* One iteration of the scan loop of run_mapper: shutdown check,
\* scan_folder_with_sizes, upload_file_list, upload_large_files_list and
\* mark_folder_scanned. late: the signal arrives after the loop's shutdown
\* check and before that of scan_folder_with_sizes.
Map_Scan(late, scanok, upok, lupok, pok) ==
    /\ mpc = "loop"
    /\ IF mshutdown
       THEN \* "Shutdown requested, stopping scan...": break
            /\ ~late /\ scanok /\ upok /\ lupok /\ pok
            /\ mpc' = "done"
            /\ UNCHANGED <<mlist, mlarge, mprog, mrem, mfailed, mshutdown, mfaults, mscanned,
                           mbadscan, mfromscan>>
       ELSE LET folder == Head(mrem)
                rest == Tail(mrem)
                lists == scan_folder_with_sizes(msource[folder], scanok /\ ~late)
            IN  /\ (late => scanok)
                /\ mshutdown' = late
                /\ mrem' = rest
                /\ mpc' = IF rest = <<>> THEN "done" ELSE "loop"
                /\ mscanned' = IF late THEN mscanned ELSE mscanned \cup {folder}
                /\ mbadscan' = IF scanok THEN mbadscan ELSE mbadscan \cup {folder}
                /\ mlist' = upload_file_list(folder, lists.normal_files, upok)
                /\ IF ~upok
                   THEN \* failed_folders.append(folder); continue
                        /\ lupok /\ pok
                        /\ mfailed' = mfailed \cup {folder}
                        /\ mfaults' = mfaults + Cost(~late) + Cost(scanok) + 1
                        /\ UNCHANGED <<mlarge, mprog, mfromscan>>
                   ELSE /\ (lists.large_files = <<>> => lupok)
                        /\ mlarge' = upload_large_files_list(folder, lists.large_files, lupok)
                        /\ mprog' = IF pok THEN mprog \cup {folder} ELSE mprog
                        /\ mfromscan' = IF scanok /\ ~late THEN mfromscan \cup {folder}
                                        ELSE mfromscan \ {folder}
                        /\ mfaults' = mfaults + Cost(~late) + Cost(scanok) + Cost(lupok)
                                              + Cost(pok)
                        /\ UNCHANGED mfailed
    /\ UNCHANGED <<msource, mrun, mforce>>

\* SIGINT/SIGTERM reaches the Mapper between two iterations
Map_Signal ==
    /\ mpc = "loop"
    /\ ~mshutdown
    /\ mshutdown' = TRUE
    /\ mfaults' = mfaults + 1
    /\ UNCHANGED <<msource, mlist, mlarge, mprog, mpc, mrem, mfailed, mrun, mforce, mscanned,
                   mbadscan, mfromscan>>

\* the Mapper is killed; the Staging Store survives
Map_Kill ==
    /\ mpc = "loop"
    /\ mpc' = "killed"
    /\ mrem' = <<>>
    /\ mfailed' = {}
    /\ mshutdown' = FALSE
    /\ mscanned' = {}
    /\ mbadscan' = {}
    /\ mfaults' = mfaults + 1
    /\ UNCHANGED <<msource, mlist, mlarge, mprog, mrun, mforce, mfromscan>>

MapNext ==
    \/ \E force, startok \in BOOLEAN, hok \in [Folders -> BOOLEAN] :
           Map_Start(force, startok, hok) /\ MFaultBudget
                /\ UNCHANGED <<zvars, lockvars, uvars, xvars>>
    \/ \E late, scanok, upok, lupok, pok \in BOOLEAN :
           Map_Scan(late, scanok, upok, lupok, pok) /\ MFaultBudget
                /\ UNCHANGED <<zvars, lockvars, uvars, xvars>>
    \/ Map_Signal /\ MFaultBudget /\ UNCHANGED <<zvars, lockvars, uvars, xvars>>
    \/ Map_Kill /\ MFaultBudget /\ UNCHANGED <<zvars, lockvars, uvars, xvars>>

\* the Mapper on every source listing of folder A
MapInit ==
    /\ ZipperInit
    /\ ExtraInit
    /\ UnzipperInit(FALSE, CHOOSE t \in TreeSizes : t[Part10] = 4)
    /\ \E entriesA \in SourceListings : MapperInit(entriesA)

SpecMap == MapInit /\ [][MapNext]_vars

\* ---------------------------------------------------------------- s3_operation_with_retry
\* 2 ** n
RECURSIVE Pow2(_)
Pow2(n) == IF n = 0 THEN 1 ELSE 2 * Pow2(n - 1)

\* what one invocation of operation_func does: it returns, or raises a
\* transient error, a rate-limit ClientError or a non-transient ClientError
CallOutcomes == {"ok", "transient", "ratelimit", "fatal"}

\* seconds one invocation of operation_func can take
CallSeconds == {0, MAX_RETRY_DURATION \div 2, MAX_RETRY_DURATION + 1}

\* error codes that are raised again at once
NonTransientFirstOnly(outcome) == outcome = "fatal" /\ rattempt = 0
NonTransient(outcome) == outcome = "fatal"

\* the wait after a rate-limit error: min(2 ** (attempt + 2), 60)
RateLimitWait(attempt) == Min(Pow2(attempt + 2), MaxBackoff)

\* a wait of 2 ** attempt after every failed attempt, the last one included
TransientWaitAlways(attempt, max_retries) == <<Pow2(attempt)>>

\* the wait after any other transient error: 2 ** attempt, none after the last attempt
TransientWait(attempt, max_retries) ==
    IF attempt < max_retries - 1 THEN <<Pow2(attempt)>> ELSE <<>>

\* a caller invokes s3_operation_with_retry(operation_func, max_retries)
R_Begin(max_retries) ==
    /\ rpc # "loop"
    /\ rpc' = "loop"
    /\ rmax' = max_retries
    /\ rattempt' = 0
    /\ rclock' = 0
    /\ rcalls' = 0
    /\ rslept' = <<>>
    /\ rlast' = "none"
    /\ rnormal' = 0

\* the sum of the elements of a sequence of numbers
RECURSIVE SumSeq(_)
SumSeq(q) == IF q = <<>> THEN 0 ELSE Head(q) + SumSeq(Tail(q))

\* One iteration of the for loop: the duration check, the invocation of
\* operation_func, the except clause with its sleep, and, when the loop is
\* exhausted, the final raise.
R_Attempt(outcome, seconds) ==
    /\ rpc = "loop"
    /\ IF rclock > MAX_RETRY_DURATION
       THEN \* raise TimeoutError
            /\ outcome = "ok" /\ seconds = 0
            /\ rpc' = "timeout"
            /\ UNCHANGED <<rmax, rattempt, rclock, rcalls, rslept, rlast, rnormal>>
       ELSE /\ rcalls' = rcalls + 1
            /\ rlast' = outcome
            /\ UNCHANGED rmax
            /\ IF outcome = "ok"
               THEN \* return operation_func()
                    /\ rpc' = "returned"
                    /\ rclock' = rclock + seconds
                    /\ UNCHANGED <<rattempt, rslept, rnormal>>
               ELSE IF outcome = "ratelimit"
               THEN \* sleep min(2 ** (attempt + 2), 60); continue
                    /\ rslept' = Append(rslept, RateLimitWait(rattempt))
                    /\ rclock' = rclock + seconds + RateLimitWait(rattempt)
                    /\ rattempt' = rattempt + 1
                    /\ rpc' = IF rattempt + 1 = rmax THEN "raised" ELSE "loop"
                    /\ UNCHANGED rnormal
               ELSE IF NonTransient(outcome)
               THEN \* raise
                    /\ rpc' = "raised"
                    /\ rclock' = rclock + seconds
                    /\ UNCHANGED <<rattempt, rslept, rnormal>>
               ELSE /\ rslept' = rslept \o TransientWait(rattempt, rmax)
                    /\ rclock' = rclock + seconds + SumSeq(TransientWait(rattempt, rmax))
                    /\ rattempt' = rattempt + 1
                    /\ rnormal' = rnormal + 1
                    /\ rpc' = IF rattempt + 1 = rmax THEN "raised" ELSE "loop"

\* any iteration of the loop
R_AttemptStep ==
    \E outcome \in CallOutcomes, seconds \in CallSeconds :
        R_Attempt(outcome, seconds) /\ UNCHANGED <<zvars, lockvars, uvars, mvars, nvars, pvars, qvars, svars, yvars>>

RetryNext ==
    \/ \E max_retries \in 1..MaxRetriesArg :
           R_Begin(max_retries) /\ UNCHANGED <<zvars, lockvars, uvars, mvars, nvars, pvars, qvars, svars, yvars>>
    \/ R_AttemptStep

SpecRetry == Init /\ [][RetryNext]_vars

\* every invocation of operation_func and every sleep comes to an end
SpecRetryFair == SpecRetry /\ WF_vars(R_AttemptStep)

\* ---------------------------------------------------------------- sanitize_name
\* The characters of folder names: a letter, a blank, an underscore, the precomposed letter
\* U+00E9 ("eacute") and the combining accent U+0301 ("acute"). The names are those of
\* top-level directories, so they hold no slash.
NameChars == {"e", " ", "_", "eacute", "acute"}
NonAscii == {"eacute", "acute"}

RECURSIVE SeqsUpTo(_, _)
SeqsUpTo(S, n) ==
    IF n = 0 THEN {<<>>}
    ELSE LET shorter == SeqsUpTo(S, n - 1)
         IN  shorter \cup {Append(q, c) : q \in shorter, c \in S}

\* get_folders strips every line of the listing: a name is not empty and neither begins nor
\* ends with a blank
FolderNames ==
    {n \in SeqsUpTo(NameChars, MaxNameLen) : Len(n) > 0 /\ n[1] # " " /\ n[Len(n)] # " "}

\* unicodedata.normalize('NFC', ...): a letter followed by its combining accent is composed
RECURSIVE NFC(_)
NFC(name) ==
    IF Len(name) = 0 THEN <<>>
    ELSE IF Len(name) >= 2 /\ name[1] = "e" /\ name[2] = "acute"
         THEN <<"eacute">> \o NFC(SubSeq(name, 3, Len(name)))
         ELSE <<name[1]>> \o NFC(Tail(name))

safe_encode_filename(filename) ==
    IF \A i \in DOMAIN filename : filename[i] \notin NonAscii THEN filename ELSE NFC(filename)

\* urllib.parse.quote(c, safe=''): unreserved characters stay, every other character becomes
\* the percent-encoding of its UTF-8 bytes
QuoteChar(c) ==
    CASE c = " "      -> <<"%", "2", "0">>
      [] c = "/"      -> <<"%", "2", "F">>
      [] c = "eacute" -> <<"%", "C", "3", "%", "A", "9">>
      [] c = "acute"  -> <<"%", "C", "C", "%", "8", "1">>
      [] OTHER        -> <<c>>

RECURSIVE quote(_)
quote(str) == IF Len(str) = 0 THEN <<>> ELSE QuoteChar(str[1]) \o quote(Tail(str))

\* str.replace(old, new): every non-overlapping occurrence, left to right
RECURSIVE replace(_, _, _)
replace(str, old, new) ==
    IF Len(str) < Len(old) THEN str
    ELSE IF SubSeq(str, 1, Len(old)) = old
         THEN new \o replace(SubSeq(str, Len(old) + 1, Len(str)), old, new)
         ELSE <<str[1]>> \o replace(Tail(str), old, new)

sanitize_name(name) ==
    replace(replace(quote(safe_encode_filename(name)), <<"%", "2", "0">>, <<"_">>),
            <<"%", "2", "F">>, <<"_">>)

SafeNames == {<<n, sanitize_name(n)>> : n \in FolderNames}
SafeName(name) == (CHOOSE p \in SafeNames : p[1] = name)[2]

S3_PREFIX == <<"w", "o", "r", "k", "_", "f", "i", "l", "e", "s", "_", "z", "i", "p", "s", "/">>
ProgressDir == <<"_", "p", "r", "o", "g", "r", "e", "s", "s", "/">>
Json == <<".", "j", "s", "o", "n">>

\* the keys of the three progress documents, the two lists and the archives of a folder
get_progress_key(safe_name) ==
    S3_PREFIX \o ProgressDir \o safe_name \o <<"_", "p", "r", "o", "g", "r", "e", "s", "s">> \o Json
unzip_get_progress_key(safe_name) ==
    S3_PREFIX \o ProgressDir \o safe_name
        \o <<"_", "u", "n", "z", "i", "p", "_", "p", "r", "o", "g", "r", "e", "s", "s">> \o Json
map_get_progress_key(safe_name) ==
    S3_PREFIX \o ProgressDir \o safe_name
        \o <<"_", "m", "a", "p", "p", "e", "r", "_", "p", "r", "o", "g", "r", "e", "s", "s">> \o Json
map_key(safe_name) == S3_PREFIX \o safe_name \o <<"_", "L", "i", "s", "t", ".", "t", "x", "t">>
large_key(safe_name) ==
    S3_PREFIX \o safe_name \o <<"_", "L", "a", "r", "g", "e", "F", "i", "l", "e", "s">> \o Json
PartNames == {<<"F", "u", "l", "l">>, <<"P", "a", "r", "t", "1">>}
s3_key(safe_name, part) == S3_PREFIX \o safe_name \o <<"_">> \o part \o <<".", "z", "i", "p">>

\* list_s3_zips_for_folder: the keys of the store that begin with S3_PREFIX, the safe name
\* and "_", and end with ".zip"
startswith(str, prefix) == Len(str) >= Len(prefix) /\ SubSeq(str, 1, Len(prefix)) = prefix
endswith(str, suffix) ==
    Len(str) >= Len(suffix) /\ SubSeq(str, Len(str) - Len(suffix) + 1, Len(str)) = suffix
ListedZips(store, folder_name) ==
    LET prefix == S3_PREFIX \o SafeName(folder_name) \o <<"_">>
    IN  {key \in store : startswith(key, prefix) /\ endswith(key, <<".", "z", "i", "p">>)}

FolderKeys(name) ==
    LET safe_name == SafeName(name)
    IN  {get_progress_key(safe_name), unzip_get_progress_key(safe_name),
         map_get_progress_key(safe_name), map_key(safe_name), large_key(safe_name)}
        \cup {s3_key(safe_name, part) : part \in PartNames}

\* the next folder of the index is processed: its objects are named
N_Derive ==
    /\ fpos < Len(findex)
    /\ fpos' = fpos + 1
    /\ fkeys' = [fkeys EXCEPT ![fpos + 1] = FolderKeys(findex[fpos + 1])]
    /\ UNCHANGED findex

NamesNext == N_Derive /\ UNCHANGED <<zvars, lockvars, uvars, mvars, rvars, pvars, qvars, svars, yvars>>

\* the folder index holds two different folder names
NamesSpecInit ==
    /\ ZipperInit
    /\ LaterInit
    /\ RetryInit
    /\ PidLockInit
    /\ PollInit("download", MaxItems)
    /\ ScratchInit("zipper")
    /\ MapperInit(<<>>)
    /\ UnzipperInit(FALSE, CHOOSE t \in TreeSizes : t[Part10] = 4)
    /\ \E a, b \in FolderNames : a # b /\ NamesInit(<<a, b>>)

SpecNames == NamesSpecInit /\ [][NamesNext]_vars

\* ---------------------------------------------------------------- Mapper instance lock, PID file
\* _process_exists(pid): the process runs, it has neither exited nor crashed
\* (a process that has not started yet has written no PID)
_process_exists(pid) == ppc[pid] \in {"checked", "create", "held"}

\* the stale check, made once in acquire_instance_lock and once more in _acquire_windows_lock:
\* the file is removed when the process whose PID it holds does not exist
StaleCheck == IF pidfile # NoFile /\ ~_process_exists(pidfile) THEN NoFile ELSE pidfile

\* acquire_instance_lock up to the platform branch
P_Check(i) ==
    /\ ppc[i] = "out"
    /\ ppc' = [ppc EXCEPT ![i] = "checked"]
    /\ pidfile' = StaleCheck

\* _acquire_windows_lock: the check for an existing lock
P_Recheck(i) ==
    /\ ppc[i] = "checked"
    /\ ppc' = [ppc EXCEPT ![i] = "create"]
    /\ pidfile' = StaleCheck

\* _acquire_windows_lock: open(lock_path, 'w') creates or truncates the file, the PID is
\* written and True is returned
P_Create(i) ==
    /\ ppc[i] = "create"
    /\ ppc' = [ppc EXCEPT ![i] = "held"]
    /\ pidfile' = i

\* release_instance_lock: the handle is closed and the file removed if it exists; the removal
\* of a file that another process holds open succeeds or raises, by platform
P_Release(i) ==
    /\ ppc[i] = "held"
    /\ ppc' = [ppc EXCEPT ![i] = "released"]
    /\ \/ pidfile' = NoFile
       \/ /\ \E j \in Pids \ {i} : ppc[j] = "held"
          /\ pidfile' = pidfile

\* the process is killed: no handler runs and the file stays
P_Crash(i) ==
    /\ ppc[i] \in {"checked", "create", "held"}
    /\ ppc' = [ppc EXCEPT ![i] = "crashed"]
    /\ UNCHANGED pidfile

PidLockNext ==
    \/ \E i \in Pids : P_Check(i) /\ UNCHANGED <<zvars, lockvars, uvars, mvars, rvars, nvars, qvars, svars, yvars>>
    \/ \E i \in Pids : P_Recheck(i) /\ UNCHANGED <<zvars, lockvars, uvars, mvars, rvars, nvars, qvars, svars, yvars>>
    \/ \E i \in Pids : P_Create(i) /\ UNCHANGED <<zvars, lockvars, uvars, mvars, rvars, nvars, qvars, svars, yvars>>
    \/ \E i \in Pids : P_Release(i) /\ UNCHANGED <<zvars, lockvars, uvars, mvars, rvars, nvars, qvars, svars, yvars>>
    \/ \E i \in Pids : P_Crash(i) /\ UNCHANGED <<zvars, lockvars, uvars, mvars, rvars, nvars, qvars, svars, yvars>>

SpecPidLock == Init /\ [][PidLockNext]_vars

\* ---------------------------------------------------------------- polling loops
\* The three loops that start a Transfer Agent child and poll it: the split loop of
\* pipeline_worker (download), the loop of transfer_large_files (large) and the loop of
\* process_folder with download_unzip_upload_one (upload).
PollKinds == {"download", "large", "upload"}

\* signal_handler: _shutdown_requested.set()
Q_Signal ==
    /\ qpc # "returned"
    /\ ~qflag
    /\ qflag' = TRUE
    /\ UNCHANGED <<qkind, qpc, qchild, qleft, qseen, qstatus, qfailed>>

\* head of the loop: the shutdown check, then the next item is started. pre: the steps of
\* download_unzip_upload_one before the upload (download, unzip, checks) succeeded.
Q_Head(pre) ==
    /\ qpc = "head"
    /\ IF qflag
       THEN /\ pre
            /\ qstatus' = "ABORTED"
            /\ qpc' = "returned"
            /\ UNCHANGED <<qchild, qleft, qseen, qfailed>>
       ELSE IF qleft = 0
       THEN /\ pre
            /\ qpc' = "returned"
            /\ UNCHANGED <<qchild, qleft, qseen, qstatus, qfailed>>
       ELSE /\ qleft' = qleft - 1
            /\ qseen' = FALSE
            /\ (qkind # "upload" => pre)
            /\ IF pre
               THEN /\ qchild' = "running"
                    /\ qpc' = "poll"
                    /\ qstatus' = "none"
                    /\ UNCHANGED qfailed
               ELSE /\ qstatus' = "ERROR"
                    /\ qfailed' = qfailed + 1
                    /\ UNCHANGED <<qchild, qpc>>
    /\ UNCHANGED <<qkind, qflag>>

\* the child ends by itself with return code rc
Q_ChildExit(rc) ==
    /\ qchild = "running"
    /\ qchild' = IF rc = 0 THEN "exit0" ELSE "exit1"
    /\ UNCHANGED <<qkind, qflag, qpc, qleft, qseen, qstatus, qfailed>>

\* one pass of the polling loop: proc.poll(), the shutdown check and, in pipeline_worker,
\* the disk and size checks (cap: one of them fired, the child is killed)
Q_Poll(cap) ==
    /\ qpc = "poll"
    /\ IF qchild # "running"
       THEN /\ ~cap
            /\ qpc' = "finish"
            /\ UNCHANGED <<qchild, qseen>>
       ELSE IF qflag
       THEN /\ ~cap
            /\ qseen' = TRUE
            /\ qpc' = "terminate"
            /\ UNCHANGED qchild
       ELSE /\ cap
            /\ qkind = "download"
            /\ qchild' = "terminated"
            /\ qpc' = "finish"
            /\ UNCHANGED qseen
    /\ UNCHANGED <<qkind, qflag, qleft, qstatus, qfailed>>

\* the child after the poller leaves it alone
ChildLeftRunning(child) == child

\* the child after proc.terminate(), proc.wait(timeout=5) and proc.kill(): a child that has
\* ended by itself in the meantime keeps its return code
ChildTerminated(child) == IF child = "running" THEN "terminated" ELSE child

\* the shutdown branch of the polling loop: proc.terminate(), proc.wait(timeout=5), proc.kill();
\* pipeline_worker and download_unzip_upload_one report ABORTED and return False,
\* transfer_large_files leaves the polling loop with break
Q_Terminate ==
    /\ qpc = "terminate"
    /\ qchild' = ChildTerminated(qchild)
    /\ CASE qkind = "download" -> /\ qstatus' = "ABORTED"
                                  /\ qfailed' = qfailed + 1
                                  /\ qpc' = "returned"
         [] qkind = "upload"   -> /\ qstatus' = "ABORTED"
                                  /\ qfailed' = qfailed + 1
                                  /\ qpc' = "head"
         [] qkind = "large"    -> /\ qpc' = "finish"
                                  /\ UNCHANGED <<qstatus, qfailed>>
    /\ UNCHANGED <<qkind, qflag, qleft, qseen>>

\* after the polling loop. large: proc.returncode == 0 leads to mark_large_file_complete,
\* anything else to failed_large; upload: a return code other than 0 returns False, else
\* mark_zip_processed and True; download: zip, upload and mark (ok: all of them succeeded;
\* for large: mark_large_file_complete returned True).
Q_Finish(ok) ==
    /\ qpc = "finish"
    /\ LET success == CASE qkind = "large"    -> qchild = "exit0" /\ ok
                        [] qkind = "upload"   -> qchild = "exit0"
                        [] qkind = "download" -> ok
       IN  /\ (qkind = "upload" => ok)
           /\ (qkind = "large" /\ qchild # "exit0" => ok)
           /\ qstatus' = IF success THEN "COMPLETED" ELSE "ERROR"
           /\ qfailed' = IF success THEN qfailed ELSE qfailed + 1
           /\ qpc' = IF qkind = "download" /\ ~success THEN "returned" ELSE "head"
    /\ UNCHANGED <<qkind, qflag, qchild, qleft, qseen>>

QFrame == UNCHANGED <<zvars, lockvars, uvars, mvars, rvars, nvars, pvars, svars, yvars>>

Q_Step ==
    \/ \E pre \in BOOLEAN : Q_Head(pre) /\ QFrame
    \/ \E cap \in BOOLEAN : Q_Poll(cap) /\ QFrame
    \/ Q_Terminate /\ QFrame
    \/ \E ok \in BOOLEAN : Q_Finish(ok) /\ QFrame

PollNext ==
    \/ Q_Signal /\ QFrame
    \/ \E rc \in {0, 1} : Q_ChildExit(rc) /\ QFrame
    \/ Q_Step

PollSpecInit ==
    /\ ZipperInit
    /\ LaterInit
    /\ RetryInit
    /\ NamesInit(<<<<"e">>, <<"e", "e">>>>)
    /\ PidLockInit
    /\ ScratchInit("zipper")
    /\ MapperInit(<<>>)
    /\ UnzipperInit(FALSE, CHOOSE t \in TreeSizes : t[Part10] = 4)
    /\ \E kind \in PollKinds, items \in 1..MaxItems : PollInit(kind, items)

SpecPoll == PollSpecInit /\ [][PollNext]_vars

\* the process that runs the loop keeps running: every step of the loop comes to an end
SpecPollFair == SpecPoll /\ WF_vars(Q_Step)

\* ---------------------------------------------------------------- scratch directory and archive file
\* temp_<part>_<split>_<random> of pipeline_worker, unzip_<zip>_<random> of
\* download_unzip_upload_one: the scratch directory of the current item of pool process w
ScratchDir(w) == <<IF sprog = "zipper" THEN "temp_" ELSE "unzip_", w, sn[w]>>

\* local_zip of the current item of pool process w
LocalZip(w) == <<"zip", w, sn[w]>>

\* the "DISK WARN" step of process_folder: every directory of WORK_DIR whose name begins
\* with unzip_ or merge_ is removed
DiskWarnClean(fs) == {path \in fs : path[1] \notin {"unzip_", "merge_"}}

\* head of an item up to os.makedirs of the scratch directory. disk: check_disk_usage() of
\* process_folder is true.
S_Begin(w, disk) ==
    /\ spc[w] = "head"
    /\ sn[w] < MaxAttempts
    /\ (disk => sprog = "unzipper")
    /\ sfs' = (IF disk THEN DiskWarnClean(sfs) ELSE sfs) \cup {ScratchDir(w)}
    /\ spc' = [spc EXCEPT ![w] = "dir"]
    /\ UNCHANGED <<sprog, sn>>

\* the archive file comes to exist (zip -0 in the Zipper, s3.download_file in the Unzipper);
\* ok = FALSE: an error return, an exception or the shutdown abort came first
S_Archive(w, ok) ==
    /\ spc[w] = "dir"
    /\ IF ok
       THEN /\ sfs' = sfs \cup {LocalZip(w)}
            /\ spc' = [spc EXCEPT ![w] = "zip"]
       ELSE /\ spc' = [spc EXCEPT ![w] = "finally"]
            /\ UNCHANGED sfs
    /\ UNCHANGED <<sprog, sn>>

\* the rest of the try block: upload in the Zipper; unzip, removal of the archive file and
\* upload in the Unzipper. ok = FALSE: the Unzipper left before it removed the archive file
S_Work(w, ok) ==
    /\ spc[w] = "zip"
    /\ sfs' = IF sprog = "unzipper" /\ ok THEN sfs \ {LocalZip(w)} ELSE sfs
    /\ spc' = [spc EXCEPT ![w] = "finally"]
    /\ UNCHANGED <<sprog, sn>>

\* the finally block: os.remove(local_zip) and shutil.rmtree of the scratch directory
S_Finally(w) ==
    /\ spc[w] = "finally"
    /\ sfs' = sfs \ {LocalZip(w), ScratchDir(w)}
    /\ spc' = [spc EXCEPT ![w] = "head"]
    /\ sn' = [sn EXCEPT ![w] = sn[w] + 1]
    /\ UNCHANGED sprog

SFrame == UNCHANGED <<zvars, lockvars, uvars, mvars, rvars, nvars, pvars, qvars, yvars>>

ScratchNext ==
    \/ \E w \in SWorkers, disk \in BOOLEAN : S_Begin(w, disk) /\ SFrame
    \/ \E w \in SWorkers, ok \in BOOLEAN : S_Archive(w, ok) /\ SFrame
    \/ \E w \in SWorkers, ok \in BOOLEAN : S_Work(w, ok) /\ SFrame
    \/ \E w \in SWorkers : S_Finally(w) /\ SFrame

ScratchSpecInit ==
    /\ ZipperInit
    /\ LaterInit
    /\ SmallInit
    /\ MapperInit(<<>>)
    /\ UnzipperInit(FALSE, CHOOSE t \in TreeSizes : t[Part10] = 4)
    /\ \E prog \in {"zipper", "unzipper"} : ScratchInit(prog)

SpecScratch == ScratchSpecInit /\ [][ScratchNext]_vars

\* ---------------------------------------------------------------- start-up and exit status
\* the run ends: sys.exit(status), or main()/run_mapper() returns and the interpreter
\* ends with status 0
Exits(status, fatal) ==
    /\ epc' = "exited"
    /\ estatus' = status
    /\ efatal' = fatal

Proceeds(pc) ==
    /\ epc' = pc
    /\ UNCHANGED <<estatus, efatal>>

\* "Check boto3 early": an ImportError ends in sys.exit(1)
E_Import(ok) ==
    /\ epc = "import"
    /\ IF ok THEN Proceeds("lock") ELSE Exits(1, "import")
    /\ UNCHANGED <<ecomp, eshut, edone>>

\* acquire_instance_lock() returned False: "Another instance is already running", return
E_Lock(ok) ==
    /\ epc = "lock"
    /\ IF ok THEN Proceeds("creds") ELSE Exits(0, "lock")
    /\ UNCHANGED <<ecomp, eshut, edone>>

\* AWS_ACCESS_KEY or AWS_SECRET_KEY missing: a message, return
E_Creds(ok) ==
    /\ epc = "creds"
    /\ IF ok THEN Proceeds("deps") ELSE Exits(0, "credentials")
    /\ UNCHANGED <<ecomp, eshut, edone>>

\* the Zipper installs rclone when it is missing; a failed installation: return
E_Deps(ok) ==
    /\ epc = "deps"
    /\ (ecomp # "zipper" => ok)
    /\ IF ok THEN Proceeds("bucket") ELSE Exits(0, "dependencies")
    /\ UNCHANGED <<ecomp, eshut, edone>>

\* s3.head_bucket: "S3 connection failed", return
E_Bucket(ok) ==
    /\ epc = "bucket"
    /\ IF ok THEN Proceeds("index") ELSE Exits(0, "store")
    /\ UNCHANGED <<ecomp, eshut, edone>>

\* fetch_folder_list() is empty (Zipper, Unzipper); no folder discovered or the folder
\* index not saved (Mapper): return
E_Index(ok) ==
    /\ epc = "index"
    /\ IF ok THEN Proceeds("work") ELSE Exits(0, "index")
    /\ UNCHANGED <<ecomp, eshut, edone>>

\* signal_handler
E_Signal ==
    /\ epc \notin {"import", "lock", "exited"}
    /\ ~eshut
    /\ eshut' = TRUE
    /\ UNCHANGED <<ecomp, epc, estatus, efatal, edone>>

\* the loop over the folders: the shutdown check, then one folder; after the loop the
\* instance lock is released and the function returns. exc: the folder raised an exception
\* that nothing in main catches; the traceback ends the process with status 1.
E_Folder(exc) ==
    /\ epc = "work"
    /\ IF eshut \/ edone = MaxIndex
       THEN ~exc /\ Exits(0, "none") /\ UNCHANGED edone
       ELSE /\ edone' = edone + 1
            /\ IF exc THEN Exits(1, "exception") ELSE Proceeds("work")
    /\ UNCHANGED <<ecomp, eshut>>

ExitNext ==
    \/ \E ok \in BOOLEAN : E_Import(ok) /\ EFrame
    \/ \E ok \in BOOLEAN : E_Lock(ok) /\ EFrame
    \/ \E ok \in BOOLEAN : E_Creds(ok) /\ EFrame
    \/ \E ok \in BOOLEAN : E_Deps(ok) /\ EFrame
    \/ \E ok \in BOOLEAN : E_Bucket(ok) /\ EFrame
    \/ \E ok \in BOOLEAN : E_Index(ok) /\ EFrame
    \/ E_Signal /\ EFrame
    \/ \E exc \in BOOLEAN : E_Folder(exc) /\ EFrame

ExitSpecInit == BaseInit /\ ERest /\ \E comp \in Components : ExitInit(comp)

SpecExit == ExitSpecInit /\ [][ExitNext]_vars

\* ---------------------------------------------------------------- pipeline_worker: the split loop
T_Return(result) ==
    /\ tpc' = "returned"
    /\ tresult' = result
    /\ UNCHANGED <<tremaining, tsplit>>

\* One pass of `while len(remaining_files) > 0`.
\* arrived: the files of remaining_files that are in the scratch directory after the download;
\* end: how the download ended; packed: zip, upload and head_object succeeded.
\* downloaded_files holds the arrived files of size > 0; remaining_files loses exactly those.
T_Iterate(arrived, end, packed) ==
    /\ tpc = "loop"
    /\ arrived \subseteq tremaining
    /\ IF tshut
       THEN /\ arrived = {} /\ end = "exit0" /\ packed
            /\ T_Return("fail")
       ELSE LET downloaded_files == arrived \ tzero
                new_remaining == tremaining \ downloaded_files
            IN  /\ (downloaded_files = {} => packed)
                /\ IF downloaded_files # {} /\ ~packed
                   THEN T_Return("fail")
                   ELSE IF downloaded_files = {} /\ end = "exit1"
                   THEN T_Return("fail")
                   ELSE IF new_remaining # {}
                   THEN /\ tremaining' = new_remaining
                        /\ tsplit' = (tsplit + 1) % (MaxSplitSeen + 1)
                        /\ UNCHANGED <<tpc, tresult>>
                   ELSE /\ tpc' = "returned"
                        /\ tresult' = "ok"
                        /\ tremaining' = {}
                        /\ UNCHANGED tsplit
    /\ UNCHANGED <<tzero, tshut>>

T_Signal ==
    /\ tpc = "loop"
    /\ ~tshut
    /\ tshut' = TRUE
    /\ UNCHANGED <<tzero, tremaining, tsplit, tpc, tresult>>

T_Step ==
    \E arrived \in SUBSET BatchFiles, end \in {"exit0", "exit1", "disk", "size"}, packed \in BOOLEAN :
        T_Iterate(arrived, end, packed) /\ TFrame

SplitNext ==
    \/ T_Step
    \/ T_Signal /\ TFrame

SplitSpecInit == BaseInit /\ TRest /\ \E zero \in SUBSET BatchFiles : SplitInit(zero)

SpecSplit == SplitSpecInit /\ [][SplitNext]_vars

\* the pool process keeps running: every pass of the loop comes to an end
SpecSplitFair == SpecSplit /\ WF_vars(T_Step)

\* ---------------------------------------------------------------- main: the loop over the folders
\* _update_progress_safe in the main process: `with _progress_lock` on the proxy of a lock
\* whose manager has been shut down raises; without a lock, or with a live one, it goes through
LockUsable == glock # "dead"

\* what the loop finds for the next folder: already complete or without lists (continue),
\* nothing remaining (mark_folder_complete, continue), or work with or without large files
FolderKinds == {"skip", "alldone", "normal", "large"}

\* top of `for folder in SUBFOLDERS` up to the start of the two pipelines
G_Top(kind) ==
    /\ gpc = "top"
    /\ gidx < MaxIndex
    /\ CASE kind = "skip" ->
              /\ gidx' = gidx + 1
              /\ UNCHANGED <<gpc, glock, gstop, gmonitor, gmarked, graised>>
         [] kind = "alldone" ->
              IF LockUsable
              THEN /\ gmarked' = gmarked \cup {gidx + 1}
                   /\ gidx' = gidx + 1
                   /\ UNCHANGED <<gpc, glock, gstop, gmonitor, graised>>
              ELSE \* the exception leaves main through its finally: release_instance_lock
                   /\ gpc' = "raised"
                   /\ UNCHANGED <<gidx, glock, gstop, gmonitor, gmarked, graised>>
         [] kind \in {"normal", "large"} ->
              \* Manager, queue, lock, stop_event, monitor; transfer_large_files runs in a
              \* thread of the main process and sets _progress_lock, pipeline_worker sets it
              \* in the pool processes only
              /\ gpc' = "pipelines"
              /\ gstop' = FALSE
              /\ gmonitor' = "running"
              /\ glock' = IF kind = "large" THEN "live" ELSE glock
              /\ UNCHANGED <<gidx, gmarked, graised>>

\* both pipelines have finished: the folder_complete decision, stop_event.set()
G_Decide(has_failures) ==
    /\ gpc = "pipelines"
    /\ gpc' = "finally"
    /\ IF has_failures
       THEN /\ gstop' = TRUE
            /\ UNCHANGED <<gmarked, graised>>
       ELSE IF LockUsable
       THEN /\ gmarked' = gmarked \cup {gidx + 1}
            /\ gstop' = TRUE
            /\ UNCHANGED graised
       ELSE \* mark_folder_complete raises: stop_event.set() and q.put are not reached
            /\ graised' = TRUE
            /\ UNCHANGED <<gstop, gmarked>>
    /\ UNCHANGED <<gidx, glock, gmonitor>>

\* monitor: `while not stop_event.is_set()` ends
G_MonitorStops ==
    /\ gmonitor = "running"
    /\ gstop
    /\ gmonitor' = "none"
    /\ UNCHANGED <<gidx, gpc, glock, gstop, gmarked, graised>>

\* finally: monitor_executor.shutdown(wait=True) returns once the monitor has ended; the
\* manager is shut down at the end of the with-block
G_Finally ==
    /\ gpc = "finally"
    /\ gmonitor = "none"
    /\ glock' = IF glock = "live" THEN "dead" ELSE glock
    /\ IF graised
       THEN gpc' = "raised" /\ UNCHANGED gidx
       ELSE gpc' = "top" /\ gidx' = gidx + 1
    /\ UNCHANGED <<gstop, gmonitor, gmarked, graised>>

\* after the last folder: release_instance_lock, "ALL FOLDERS COMPLETE"
G_End ==
    /\ gpc = "top"
    /\ gidx = MaxIndex
    /\ gpc' = "released"
    /\ UNCHANGED <<gidx, glock, gstop, gmonitor, gmarked, graised>>

G_Step ==
    \/ \E kind \in FolderKinds : G_Top(kind) /\ GFrame
    \/ \E has_failures \in BOOLEAN : G_Decide(has_failures) /\ GFrame
    \/ G_MonitorStops /\ GFrame
    \/ G_Finally /\ GFrame
    \/ G_End /\ GFrame

FoldersSpecInit == BaseInit /\ GRest /\ FoldersInit

SpecFolders == FoldersSpecInit /\ [][G_Step]_vars

\* the main process and the monitor thread keep running
SpecFoldersFair == SpecFolders /\ WF_vars(G_Step)

\* ---------------------------------------------------------------- Mapper: lock and Staging-Store writes
HSet(i, pc, held, left, wrote) ==
    /\ hpc' = [hpc EXCEPT ![i] = pc]
    /\ hheld' = [hheld EXCEPT ![i] = held]
    /\ hleft' = [hleft EXCEPT ![i] = left]
    /\ hwrote' = wrote
    /\ UNCHANGED hshut

\* run_mapper: acquire_instance_lock; False while another instance holds the lock
H_Acquire(i) ==
    /\ hpc[i] = "out"
    /\ IF \E j \in Mappers : hheld[j]
       THEN HSet(i, "ended", FALSE, hleft[i], {})
       ELSE HSet(i, "head", TRUE, hleft[i], {})

\* signal_handler: _shutdown_requested.set(), release_instance_lock()
H_Signal(i) ==
    /\ hpc[i] \notin {"out", "ended"}
    /\ ~hshut[i]
    /\ hshut' = [hshut EXCEPT ![i] = TRUE]
    /\ hheld' = [hheld EXCEPT ![i] = FALSE]
    /\ hwrote' = {}
    /\ UNCHANGED <<hpc, hleft>>

\* head of the scan loop: the shutdown check; after the loop the finally block releases
\* the lock; else scan_folder_with_sizes of the next folder
H_Head(i) ==
    /\ hpc[i] = "head"
    /\ IF hshut[i] \/ hleft[i] = 0
       THEN HSet(i, "ended", FALSE, hleft[i], {})
       ELSE HSet(i, "list", hheld[i], hleft[i] - 1, {})

\* upload_file_list: put_object of <folder>_List.txt; on failure the folder is skipped
H_List(i, ok) ==
    /\ hpc[i] = "list"
    /\ HSet(i, IF ok THEN "manifest" ELSE "head", hheld[i], hleft[i], IF ok THEN {i} ELSE {})

\* upload_large_files_list: put_object of <folder>_LargeFiles.json, if there are large files
H_Manifest(i, large, ok) ==
    /\ hpc[i] = "manifest"
    /\ (~large => ok)
    /\ HSet(i, "progress", hheld[i], hleft[i], IF large /\ ok THEN {i} ELSE {})

\* mark_folder_scanned: put_object of the Mapper's progress document
H_Progress(i, ok) ==
    /\ hpc[i] = "progress"
    /\ HSet(i, "head", hheld[i], hleft[i], IF ok THEN {i} ELSE {})

MapLockNext ==
    \/ \E i \in Mappers : H_Acquire(i) /\ HFrame
    \/ \E i \in Mappers : H_Signal(i) /\ HFrame
    \/ \E i \in Mappers : H_Head(i) /\ HFrame
    \/ \E i \in Mappers, ok \in BOOLEAN : H_List(i, ok) /\ HFrame
    \/ \E i \in Mappers, large, ok \in BOOLEAN : H_Manifest(i, large, ok) /\ HFrame
    \/ \E i \in Mappers, ok \in BOOLEAN : H_Progress(i, ok) /\ HFrame

MapLockSpecInit == BaseInit /\ HRest /\ MapLockInit

SpecMapLock == MapLockSpecInit /\ [][MapLockNext]_vars

\* ---------------------------------------------------------------- Unzipper: scratch tree and upload
\* process_folder, head of an archive: check_disk_usage(); when true, os.listdir(WORK_DIR)
\* names every unzip_* directory for shutil.rmtree
K_Head(w, disk) ==
    /\ kpc[w] = "head"
    /\ kpc' = [kpc EXCEPT ![w] = "cleaning"]
    /\ kclean' = [kclean EXCEPT ![w] = IF disk THEN {v \in SWorkers : kdir[v]} ELSE {}]
    /\ UNCHANGED <<kskip, kdir, ktree, klisted, kdest, kmarked>>

\* shutil.rmtree of the DISK WARN step removes one file of a directory it was given
K_Remove(w, v, f) ==
    /\ kpc[w] = "cleaning"
    /\ v \in kclean[w]
    /\ f \in ktree[v]
    /\ ktree' = [ktree EXCEPT ![v] = ktree[v] \ {f}]
    /\ UNCHANGED <<kskip, kpc, kdir, kclean, klisted, kdest, kmarked>>

\* shutil.rmtree ends with os.rmdir, which fails on a directory that is not empty; the
\* DISK WARN step passes over the failure
K_Rmdir(w, v) ==
    /\ kpc[w] = "cleaning"
    /\ v \in kclean[w]
    /\ kdir' = [kdir EXCEPT ![v] = kdir[v] /\ ktree[v] # {}]
    /\ kclean' = [kclean EXCEPT ![w] = kclean[w] \ {v}]
    /\ UNCHANGED <<kskip, kpc, ktree, klisted, kdest, kmarked>>

\* download_unzip_upload_one: os.makedirs(temp_unzip_dir)
K_Begin(w) ==
    /\ kpc[w] = "cleaning"
    /\ kclean[w] = {}
    /\ kdir' = [kdir EXCEPT ![w] = TRUE]
    /\ kpc' = [kpc EXCEPT ![w] = "dir"]
    /\ UNCHANGED <<kskip, ktree, kclean, klisted, kdest, kmarked>>

\* download, verify_zip_integrity and unzip -o -q -d temp_unzip_dir, which makes the
\* directory when it is missing; ok = FALSE: one of them failed
K_Unzip(w, ok) ==
    /\ kpc[w] = "dir"
    /\ IF ok
       THEN /\ kdir' = [kdir EXCEPT ![w] = TRUE]
            /\ ktree' = [ktree EXCEPT ![w] = TreeFiles]
            /\ kpc' = [kpc EXCEPT ![w] = "unzipped"]
       ELSE /\ kpc' = [kpc EXCEPT ![w] = "finally"]
            /\ UNCHANGED <<kdir, ktree>>
    /\ UNCHANGED <<kskip, kclean, klisted, kdest, kmarked>>

\* step 3. SKIP_UPLOAD: cp -r -n with check=False, the result is not looked at. Else
\* rclone copy starts: it fails on a missing directory and lists the files of an existing one
K_List(w) ==
    /\ kpc[w] = "unzipped"
    /\ IF kskip
       THEN /\ kdest' = [kdest EXCEPT ![w] = kdest[w] \cup ktree[w]]
            /\ kpc' = [kpc EXCEPT ![w] = "mark"]
            /\ UNCHANGED klisted
       ELSE /\ klisted' = [klisted EXCEPT ![w] = ktree[w]]
            /\ kpc' = [kpc EXCEPT ![w] = IF kdir[w] THEN "uploading" ELSE "finally"]
            /\ UNCHANGED kdest
    /\ UNCHANGED <<kskip, kdir, ktree, kclean, kmarked>>

\* rclone copies one listed file; a listed file that is gone is an error, and the
\* return code is not 0
K_Copy(w, f) ==
    /\ kpc[w] = "uploading"
    /\ f \in klisted[w] \ kdest[w]
    /\ IF f \in ktree[w]
       THEN /\ kdest' = [kdest EXCEPT ![w] = kdest[w] \cup {f}]
            /\ UNCHANGED kpc
       ELSE /\ kpc' = [kpc EXCEPT ![w] = "finally"]
            /\ UNCHANGED kdest
    /\ UNCHANGED <<kskip, kdir, ktree, kclean, klisted, kmarked>>

\* rclone ends with return code 0
K_Exit(w) ==
    /\ kpc[w] = "uploading"
    /\ klisted[w] \subseteq kdest[w]
    /\ kpc' = [kpc EXCEPT ![w] = "mark"]
    /\ UNCHANGED <<kskip, kdir, ktree, kclean, klisted, kdest, kmarked>>

\* step 4: mark_zip_processed; True is returned whether or not the write succeeded
K_Mark(w, ok) ==
    /\ kpc[w] = "mark"
    /\ kmarked' = IF ok THEN kmarked \cup {w} ELSE kmarked
    /\ kpc' = [kpc EXCEPT ![w] = "finally"]
    /\ UNCHANGED <<kskip, kdir, ktree, kclean, klisted, kdest>>

\* the finally block: shutil.rmtree(temp_unzip_dir)
K_Finally(w) ==
    /\ kpc[w] = "finally"
    /\ kdir' = [kdir EXCEPT ![w] = FALSE]
    /\ ktree' = [ktree EXCEPT ![w] = {}]
    /\ kpc' = [kpc EXCEPT ![w] = "ended"]
    /\ UNCHANGED <<kskip, kclean, klisted, kdest, kmarked>>

TreeNext ==
    \/ \E w \in SWorkers, disk \in BOOLEAN : K_Head(w, disk) /\ KFrame
    \/ \E w, v \in SWorkers, f \in TreeFiles : K_Remove(w, v, f) /\ KFrame
    \/ \E w, v \in SWorkers : K_Rmdir(w, v) /\ KFrame
    \/ \E w \in SWorkers : K_Begin(w) /\ KFrame
    \/ \E w \in SWorkers, ok \in BOOLEAN : K_Unzip(w, ok) /\ KFrame
    \/ \E w \in SWorkers : K_List(w) /\ KFrame
    \/ \E w \in SWorkers, f \in TreeFiles : K_Copy(w, f) /\ KFrame
    \/ \E w \in SWorkers : K_Exit(w) /\ KFrame
    \/ \E w \in SWorkers, ok \in BOOLEAN : K_Mark(w, ok) /\ KFrame
    \/ \E w \in SWorkers : K_Finally(w) /\ KFrame

TreeSpecInit == BaseInit /\ KRest /\ \E skip \in BOOLEAN : TreeInit(skip)

SpecTree == TreeSpecInit /\ [][TreeNext]_vars

\* ---------------------------------------------------------------- specification
Next ==
    \/ \E r1, r2, r3, r4, r5, r6, r7 \in BOOLEAN :
           M_Start(r1, r2, r3, r4, r5, r6, r7) /\ FaultBudget /\ UNCHANGED <<lockvars, uvars, mvars, xvars>>
    \/ \E r1, r2 \in BOOLEAN : M_Join(r1, r2) /\ FaultBudget /\ UNCHANGED <<lockvars, uvars, mvars, xvars>>
    \/ \E group \in BOOLEAN : Signal(group) /\ FaultBudget /\ UNCHANGED <<lockvars, uvars, mvars, xvars>>
    \/ Kill /\ FaultBudget /\ UNCHANGED <<lockvars, uvars, mvars, xvars>>
    \/ \E w \in Workers, r \in BOOLEAN : W_Start(w, r) /\ FaultBudget /\ UNCHANGED <<lockvars, uvars, mvars, xvars>>
    \/ \E w \in Workers, r \in BOOLEAN : W_Loop(w, r) /\ FaultBudget /\ UNCHANGED <<lockvars, uvars, mvars, xvars>>
    \/ \E w \in Workers, dl \in SUBSET NormalFiles, end \in DownloadEnds, zipok \in BOOLEAN :
           W_Download(w, dl, end, zipok) /\ FaultBudget /\ UNCHANGED <<lockvars, uvars, mvars, xvars>>
    \/ \E w \in Workers, upok \in BOOLEAN, headok \in BOOLEAN :
           W_Upload(w, upok, headok) /\ FaultBudget /\ UNCHANGED <<lockvars, uvars, mvars, xvars>>
    \/ \E w \in Workers, r1, r2 \in BOOLEAN :
           W_Mark(w, r1, r2) /\ FaultBudget /\ UNCHANGED <<lockvars, uvars, mvars, xvars>>
    \/ \E r1, r2 \in BOOLEAN : L_Start(r1, r2) /\ FaultBudget /\ UNCHANGED <<lockvars, uvars, mvars, xvars>>
    \/ \E rc \in {0, 1}, r1, r2 \in BOOLEAN :
           L_Copy(rc, r1, r2) /\ FaultBudget /\ UNCHANGED <<lockvars, uvars, mvars, xvars>>

Spec == Init /\ [][Next]_vars

\* ---------------------------------------------------------------- properties
ArchivedFiles(keys) == UNION {archives[k] : k \in keys}
StoredKeys == {k \in Keys : archives[k] # {}}

\* C1: whenever the stored progress document has folder_complete = true, the
\* archives of completed_keys contain exactly the normal-file list and
\* large_files_done is exactly the large-file manifest.
C1_FolderCompleteAccounts ==
    progress.folder_complete =>
        /\ ArchivedFiles(progress.completed_keys) = NormalFiles
        /\ progress.large_files_done = LargePaths

\* C2: main() writes folder_complete only when the normal and the large pipeline
\* of the folder have finished, no batch worker returned failure and
\* failed_large is empty; when a sub-unit failed, main() ends the folder without
\* writing the progress document.
C2_MarkOnlyWithoutFailures ==
    [][/\ (marked' /\ ~marked) =>
            /\ PipelinesFinished
            /\ \A w \in Workers : wres[w] # "fail"
            /\ lfailed = {}
       /\ (~progress.folder_complete /\ progress'.folder_complete) =>
            /\ \A w \in Workers : wpc'[w] \in {"none", "done"} /\ wres'[w] # "fail"
            /\ lpc' \in {"none", "done"}
            /\ lfailed' = {}
       /\ (/\ mainpc = "join" /\ mainpc' = "done"
           /\ ((\E w \in Workers : wres[w] = "fail") \/ lfailed # {})) =>
            /\ progress' = progress
            /\ ~marked']_vars

\* C2 witness: main() marked the folder complete after pipelines that uploaded
\* an archive and copied a large file
C2_Witness ==
    /\ marked /\ mainpc = "done" /\ progress.folder_complete
    /\ uploadedRun # {} /\ dest # {}

\* C3: no step removes an entry from completed_keys or large_files_done, and
\* folder_complete never goes from true to false.
C3_ProgressMonotonic ==
    [][/\ progress.completed_keys \subseteq progress'.completed_keys
       /\ progress.large_files_done \subseteq progress'.large_files_done
       /\ (progress.folder_complete => progress'.folder_complete)]_vars

\* C4: a key enters completed_keys only in a step of a worker whose current key
\* it is, after that worker uploaded the archive under the key and its
\* head-object check succeeded in this split iteration; when the upload or the
\* check fails the worker returns failure and the progress document is unchanged.
C4_MarkOnlyAfterVerifiedUpload ==
    [][/\ \A k \in Keys :
            (k \notin progress.completed_keys /\ k \in progress'.completed_keys) =>
                \E w \in Workers :
                    /\ wpc[w] = "mark" /\ CurrentKey(w) = k
                    /\ wver[w] /\ k \in wkeys[w]
                    /\ archives[k] = wdl[w]
       /\ \A f \in NormalFiles :
            (f \notin progress.completed_files /\ f \in progress'.completed_files) =>
                \E w \in Workers :
                    /\ wpc[w] = "mark" /\ wver[w]
                    /\ f \in wdl[w] /\ archives[CurrentKey(w)] = wdl[w]
       /\ \A w \in Workers :
            (wpc[w] = "upload" /\ wpc'[w] \notin {"upload", "mark"} /\ mainpc' = "join") =>
                /\ wres'[w] = "fail"
                /\ progress' = progress]_vars

\* C4 witness: a key uploaded and verified in this run is in completed_keys
\* with its files
C4_Witness ==
    \E k \in uploadedRun :
        /\ k \in progress.completed_keys
        /\ archives[k] # {} /\ archives[k] \subseteq progress.completed_files

\* C5: when a run that follows a killed run has ended, the archives in the
\* Staging Store are exactly those completed before the kill and those the
\* resumed run produced, and no normal file is in two archives.
C5_ResumeExactArchiveSet ==
    (resumed /\ mainpc = "done") =>
        /\ StoredKeys = keysAtKill \cup uploadedRun
        /\ \A k1, k2 \in Keys : k1 # k2 => archives[k1] \cap archives[k2] = {}
\* a step in which worker w uploads an archive under its current key
UploadStep(w) ==
    /\ wpc[w] = "upload" /\ wpc'[w] # "upload" /\ mainpc' = "join"
    /\ CurrentKey(w) \in uploadedRun'

\* a step in which transfer_large_files runs the Transfer Agent on the next large file
CopyStep ==
    /\ lpc = "loop" /\ ~shutdown /\ mainpc' = "join"
    /\ lrem # <<>> /\ lrem' = Tail(lrem)

\* C6: a worker at the head of the split loop whose current key (base key or
\* split key) is in completed_keys skips the key: it increments split_index and
\* stays in the loop; and no worker uploads under a key of completed_keys.
C6_SkipsCompletedKey ==
    [][\A w \in Workers :
          /\ (/\ wpc[w] = "loop" /\ ~poolshut /\ mainpc' = "join"
              /\ CurrentKey(w) \in progress.completed_keys
              /\ <<wpc'[w], wsplit'[w]>> # <<wpc[w], wsplit[w]>>) =>
                  /\ wpc'[w] = "loop"
                  /\ wsplit'[w] = wsplit[w] + 1
                  /\ wrem'[w] = wrem[w]
          /\ UploadStep(w) => CurrentKey(w) \notin progress.completed_keys]_vars

\* C7: a run of the Zipper uploads no archive under a key of completed_keys,
\* copies no large file of large_files_done, and uploads and copies nothing
\* while the progress document has folder_complete = true.
C7_Idempotent ==
    [][/\ \A w \in Workers :
            UploadStep(w) => /\ CurrentKey(w) \notin progress.completed_keys
                             /\ ~progress.folder_complete
       /\ CopyStep => /\ Head(lrem) \notin progress.large_files_done
                      /\ ~progress.folder_complete]_vars

\* C8: every archive in the Staging Store was built from a scratch directory of
\* at most MAX_ZIP_SIZE_BYTES bytes.
C8_ScratchWithinCap ==
    \A k \in Keys : get_folder_size_bytes(archives[k]) <= MAX_ZIP_SIZE_BYTES

\* C9: when a worker returns success, every file of its batch that was not in
\* completed_files at its start is in exactly one archive the worker uploaded
\* and is in completed_files.
C9_SplitLosesNoFile ==
    [][\A w \in Workers :
          (wpc[w] \notin {"none", "done"} /\ wpc'[w] = "done" /\ wres'[w] = "ok") =>
              \A f \in wbatch[w] :
                  /\ Cardinality({k \in wkeys[w] : f \in archives'[k]}) = 1
                  /\ f \in progress'.completed_files]_vars

\* C10: an instance that tries to take the instance lock while another instance
\* of the component holds it is refused, and an instance that was refused makes
\* no Staging-Store call.
C10_SecondInstanceRefused ==
    [][\A i, j \in Instances :
          /\ (/\ i # j /\ ipc[i] = "running"
              /\ ipc[j] = "opened" /\ ipc'[j] # "opened") => ipc'[j] = "refused"
          /\ ipc[j] = "refused" => ~calls'[j]]_vars


\* ---------------------------------------------------------------- Unzipper properties
\* C11: an archive key enters processed_keys only in the step that marks it,
\* and only when its extracted tree was delivered to the destination in full
\* (the copy exited zero, or the local no-clobber merge succeeded); after any
\* failure of download, test, extraction or delivery the key is not added.
C11_MarkOnlyAfterDelivery ==
    [][\A k \in UKeys :
          (k \in uprogress'.processed_keys /\ k \notin uprogress.processed_keys)
              => (upc = "mark" /\ ukey = k /\ udelivered)]_vars

\* the archive whose download, extraction and delivery this step attempts
Attempts(k) ==
    /\ Len(uattempted') = Len(uattempted) + 1
    /\ uattempted'[Len(uattempted')] = k

\* C12: each archive is handled once: an archive is attempted at most once in a
\* run, no archive whose key is in the stored processed_keys is downloaded,
\* extracted or delivered again, and no archive of a folder whose stored
\* document says folder_complete is touched.
C12_EachArchiveOnce ==
    [][\A k \in UKeys :
          Attempts(k) => /\ \A i \in 1..Len(uattempted) : uattempted[i] # k
                         /\ k \notin uprogress.processed_keys
                         /\ ~uprogress.folder_complete]_vars

\* C13: a run in which an archive failed does not mark the folder complete,
\* goes on with the archives after the failed one, and a run that enters the
\* loop works on exactly the listed archives that are not in the stored
\* processed_keys.
C13_FailedArchiveRetried ==
    [][/\ (uprogress'.folder_complete /\ ~uprogress.folder_complete) => ubad = {}
       /\ \A k \in UKeys :
            (Attempts(k) /\ k \in ubad' /\ Tail(urem) # <<>>)
                => (upc' \in {"loop", "mark"} /\ urem' = Tail(urem))
       /\ (upc # "loop" /\ upc' = "loop" /\ urun' = urun + 1)
            => Range(urem') = UKeys \ uprogress.processed_keys]_vars

\* the extracted tree of archive k is larger than MAX_ZIP_BOMB_RATIO times the archive
ExceedsRatio(k) == uxsize[k] > MAX_ZIP_BOMB_RATIO * ZipBytes(k)

\* C14: bomb refusal: an archive whose extracted tree exceeds MAX_ZIP_BOMB_RATIO
\* times its downloaded size has no path at the destination and its key is not
\* in processed_keys, and every attempt on it ends as a failed archive.
C14_BombRefused ==
    [][\A k \in UKeys :
          ExceedsRatio(k) =>
              /\ k \notin uprogress'.processed_keys
              /\ \A p \in Paths : udest'[p] # k
              /\ (Attempts(k) => (k \in ufailed' /\ upc' # "mark"))]_vars

\* the bomb was downloaded and extracted without any fault and was refused,
\* while the archives before it were delivered
C14_Witness ==
    /\ ExceedsRatio(Part10)
    /\ ufaults = 0
    /\ Part10 \in ufailed
    /\ udest["b"] # Absent

\* the archive that is first in natural-sort order among those that hold path p
FirstWith(p) ==
    CHOOSE k \in UKeys :
        /\ p \in Tree(k)
        /\ \A j \in UKeys : (p \in Tree(j) /\ j # k) => NaturalLess(k, j)

\* C15: natural-order extraction: once the folder is recorded as processed,
\* every path present at the destination holds the content of the archive that
\* is first in natural-sort order among the archives with that path.
C15_FirstArchiveWins ==
    uprogress.folder_complete =>
        \A p \in Paths : udest[p] # Absent => udest[p] = FirstWith(p)

\* part number and split number of the folder's archive keys
PartNo(k) == IF k \in {Part1, Part1_Split1} THEN 1 ELSE IF k = Part2 THEN 2 ELSE 10
SplitNo(k) == IF k = Part1_Split1 THEN 1 ELSE 0

\* PartN before PartN_SplitM before PartN' for N' > N
Precedes(k1, k2) ==
    \/ PartNo(k1) < PartNo(k2)
    \/ PartNo(k1) = PartNo(k2) /\ SplitNo(k1) < SplitNo(k2)

\* the sort order on the keys of parts 1..MaxPart and splits 1..MaxSplitNo
OrderOnParts ==
    /\ \A n \in 1..MaxPart, m \in 1..MaxSplitNo :
          /\ NaturalLess(KeyString(n, 0), KeyString(n, m))
          /\ \A n2 \in (n + 1)..MaxPart :
                /\ NaturalLess(KeyString(n, m), KeyString(n2, 0))
                /\ NaturalLess(KeyString(n, 0), KeyString(n2, 0))
    /\ NaturalLess(KeyString(2, 0), KeyString(10, 0))

\* C16: the listing is sorted so that digit runs compare numerically (PartN
\* before PartN_SplitM before PartN' for N' > N, Part2 before Part10), and the
\* Unzipper attempts the archives in exactly that order.
C16_NaturalOrder ==
    /\ OrderOnParts
    /\ \A l \in Listings :
          \A i, j \in 1..Len(SortedKeys(l)) :
              i < j => Precedes(SortedKeys(l)[i], SortedKeys(l)[j])
    /\ \A i, j \in 1..Len(uattempted) : i < j => Precedes(uattempted[i], uattempted[j])
    /\ \A i, j \in 1..Len(urem) : i < j => Precedes(urem[i], urem[j])
    /\ \A i \in 1..Len(uattempted), j \in 1..Len(urem) : Precedes(uattempted[i], urem[j])

\* a run attempted all four archives, Part2 third and Part10 last
C16_Witness ==
    /\ Len(uattempted) = 4
    /\ uattempted[3] = Part2
    /\ uattempted[4] = Part10

\* ---------------------------------------------------------------- Mapper properties
\* the position of path q in the listing
PosIn(entries, q) == CHOOSE i \in 1..Len(entries) : entries[i].Path = q

\* the two lists are a partition of the listing by the threshold, in listing order
Partitioned(entries, normal_files, large_files) ==
    /\ \A i \in 1..Len(entries) :
          LET e == entries[i]
          IN  /\ (\E j \in 1..Len(large_files) : large_files[j].path = e.Path)
                    <=> e.Size > LARGE_FILE_THRESHOLD_BYTES
              /\ (\E j \in 1..Len(normal_files) : normal_files[j] = e.Path)
                    <=> e.Size <= LARGE_FILE_THRESHOLD_BYTES
    /\ Len(normal_files) + Len(large_files) = Len(entries)
    /\ \A i, j \in 1..Len(normal_files) :
          i < j => PosIn(entries, normal_files[i]) < PosIn(entries, normal_files[j])
    /\ \A i, j \in 1..Len(large_files) :
          i < j => PosIn(entries, large_files[i].path) < PosIn(entries, large_files[j].path)
    /\ \A j \in 1..Len(large_files) :
          large_files[j].size = entries[PosIn(entries, large_files[j].path)].Size

\* scan_folder_with_sizes partitions every listing
ScanPartitions ==
    \A entries \in SourceListings :
        LET lists == scan_folder_with_sizes(entries, TRUE)
        IN  Partitioned(entries, lists.normal_files, lists.large_files)

\* C17: partition correctness: a listed file is in the large-file manifest iff
\* its size is above the threshold and in the normal-file list iff its size is
\* at most the threshold (equal = normal); every listed file is in exactly one
\* of the two, in listing order. It holds of what a scan returns and of the
\* objects the Mapper writes from it.
C17_PartitionCorrect ==
    /\ ScanPartitions
    /\ \A f \in Folders :
          /\ (f \in mfromscan /\ mlarge[f].exists)
                => Partitioned(msource[f], mlist[f].files, mlarge[f].files)
          /\ (f \in mfromscan /\ ~mlarge[f].exists)
                => \A i \in 1..Len(msource[f]) :
                      (\E j \in 1..Len(mlist[f].files) : mlist[f].files[j] = msource[f][i].Path)
                          <=> msource[f][i].Size <= LARGE_FILE_THRESHOLD_BYTES

\* folder A holds a file of exactly the threshold size and a larger one, and
\* both of its objects were written
C17_Witness ==
    /\ "A" \in mfromscan
    /\ mlarge["A"].exists
    /\ \E i \in 1..Len(msource["A"]) :
          /\ msource["A"][i].Size = LARGE_FILE_THRESHOLD_BYTES
          /\ mlist["A"].files = <<msource["A"][i].Path>>

\* the listing of folder f is requested in this step
Scans(f) == f \in mscanned' /\ f \notin mscanned

\* C18: a folder's normal-file list is created once: when the list object of a
\* folder exists, a run without force_rescan neither lists the folder again nor
\* writes its normal-file list or its large-file manifest.
C18_ListCreatedOnce ==
    [][\A f \in Folders :
          (mlist[f].exists /\ ~mforce')
              => (~Scans(f) /\ mlist'[f] = mlist[f] /\ mlarge'[f] = mlarge[f])]_vars

\* the upload of the normal-file list of folder f fails in this step
UploadFails(f) == f \in mfailed' /\ f \notin mfailed

ListingFails(f) == f \in mbadscan' /\ f \notin mbadscan

\* C20: when the listing of a folder fails, the Mapper skips the folder: it
\* writes no normal-file list and no large-file manifest for it, so that the
\* folder has no list object the resume gate could find, and goes on with the
\* next folder.
C20_FailedListingWritesNothing ==
    [][\A f \in Folders :
          ListingFails(f) => /\ mlist'[f] = mlist[f]
                             /\ mlarge'[f] = mlarge[f]
                             /\ mrem' = Tail(mrem)
                             /\ (mrem' # <<>> => mpc' = "loop")]_vars

\* ---------------------------------------------------------------- retry properties
\* operation_func is invoked in this step
Invokes == rcalls' = rcalls + 1

\* C21: a non-transient error raised by the operation, at whichever attempt,
\* ends s3_operation_with_retry with that error at once: the operation is not
\* invoked again and nothing is slept.
C21_NonTransientPropagates ==
    [][(Invokes /\ rlast' = "fatal")
          => (rpc' = "raised" /\ rslept' = rslept /\ rattempt' = rattempt)]_vars

\* a non-transient error at the second attempt, after one transient failure
C21_Witness ==
    /\ rpc = "raised"
    /\ rlast = "fatal"
    /\ rcalls = 2
    /\ rslept = <<1>>

\* C22: a rate-limit response is followed by a backoff of min(2^(attempt+2), 60)
\* seconds, never more than 60, and does not use up the attempt budget: the
\* invocation ends with the last error only after max_retries failures that
\* were no rate limit, so an operation that is rate-limited on three
\* consecutive calls under max_retries = 3 is called a fourth time.
C22_RateLimitOutsideBudget ==
    [][/\ (Invokes /\ rlast' = "ratelimit")
             => /\ Len(rslept') = Len(rslept) + 1
                /\ rslept'[Len(rslept')] = Min(Pow2(rattempt + 2), 60)
                /\ rslept'[Len(rslept')] <= 60
       /\ (Invokes /\ rpc' = "raised" /\ rlast' # "fatal") => rnormal' = rmax]_vars

\* what holds of every invocation that meets only transient errors that are no
\* rate limit: at most max_retries invocations of the operation, a sleep of
\* 2^attempt seconds after each failed attempt but the last, and no attempt
\* once more than max_duration seconds have passed
BoundedAttempts ==
    /\ rcalls <= rmax
    /\ (rcalls = rnormal + (IF rlast = "ok" THEN 1 ELSE 0) /\ rpc # "idle")
          => /\ Len(rslept) = (IF rnormal = rmax THEN rmax - 1 ELSE rnormal)
             /\ \A i \in 1..Len(rslept) : rslept[i] = Pow2(i - 1)

ManifestPos(q) == CHOOSE i \in 1..Len(LargeManifest) : LargeManifest[i] = q

\* C24: the large pipeline takes the large files one at a time in manifest
\* order; it runs no copy for a path that is in large_files_done; a path
\* enters large_files_done only in the step in which the copy of exactly that
\* path exited with success; and a path whose copy failed or whose progress
\* write failed is in the failure list.
C24_LargeFilesInOrder ==
    [][/\ \A i, j \in 1..Len(lrem) : i < j => ManifestPos(lrem[i]) < ManifestPos(lrem[j])
       /\ CopyStep => Head(lrem) \notin progress.large_files_done
       /\ \A q \in LargePaths :
             (q \in progress'.large_files_done /\ q \notin progress.large_files_done)
                 => (CopyStep /\ Head(lrem) = q /\ q \in dest')
       /\ (CopyStep /\ (Head(lrem) \notin dest' \/ Head(lrem) \notin progress'.large_files_done))
             => Head(lrem) \in lfailed']_vars

\* ---------------------------------------------------------------- progress update properties
\* worker w leaves mark_part_complete in this step
MarkStep(w) == wpc[w] = "mark" /\ wpc'[w] # "mark" /\ mainpc' = "join"

\* the stored document keeps every key, file path and large-file path it had
KeepsAll ==
    /\ progress.completed_keys \subseteq progress'.completed_keys
    /\ progress.completed_files \subseteq progress'.completed_files
    /\ progress.large_files_done \subseteq progress'.large_files_done

\* C25: the updates of the batch workers and of the large-file thread are
\* applied one after the other and none is lost: an update that was written
\* holds what it marked and everything that was marked before it.
C25_NoLostUpdate ==
    [][/\ \A w \in Workers :
             (MarkStep(w) /\ progress' # progress)
                 => /\ CurrentKey(w) \in progress'.completed_keys
                    /\ wdl[w] \subseteq progress'.completed_files
                    /\ KeepsAll
       /\ (CopyStep /\ progress' # progress)
             => (Head(lrem) \in progress'.large_files_done /\ KeepsAll)]_vars

\* ---------------------------------------------------------------- folder names
\* C26: two different folder names of the folder index never name the same Staging-Store
\* object: the keys derived for one folder and those derived for another are disjoint.
C26_DistinctFoldersDistinctKeys ==
    \A i, j \in DOMAIN findex :
        (i # j /\ i <= fpos /\ j <= fpos) => fkeys[i] \cap fkeys[j] = {}

\* ---------------------------------------------------------------- Mapper PID-file lock
\* process i returns from the acquisition with the lock
Acquires(i) == ppc[i] = "create" /\ ppc'[i] = "held"
Probes(i) == (ppc[i] = "out" /\ ppc'[i] = "checked") \/ (ppc[i] = "checked" /\ ppc'[i] = "create")

\* C27: on the PID-file path a lock file whose process is not alive is reclaimed, an
\* acquisition fails while the process named in the lock file is alive, and two live
\* instances never hold the lock together.
C27_PidFileLockExclusive ==
    /\ [](\A i, j \in Pids : (ppc[i] = "held" /\ ppc[j] = "held") => i = j)
    /\ [][\A i \in Pids :
             /\ (Probes(i) /\ pidfile # NoFile /\ ~_process_exists(pidfile)) => pidfile' = NoFile
             /\ Acquires(i) => ~(pidfile # NoFile /\ pidfile # i /\ _process_exists(pidfile))]_vars

\* ---------------------------------------------------------------- shutdown
\* the current item ends
ItemEnds == qpc \in {"terminate", "finish"} /\ qpc' \in {"head", "returned"}

StepOf(w) == spc'[w] # spc[w]

\* C29: when a split iteration or an archive attempt ends, its scratch directory and its
\* archive file no longer exist, and its steps have deleted nothing else.
C29_OnlyOwnScratchRemoved ==
    [][\A w \in SWorkers :
          /\ (spc[w] = "finally" /\ StepOf(w))
                => (ScratchDir(w) \notin sfs' /\ LocalZip(w) \notin sfs')
          /\ StepOf(w) => (sfs \ sfs') \subseteq {ScratchDir(w), LocalZip(w)}]_vars

\* ---------------------------------------------------------------- completed_files
\* the files of the archives stored under the keys of completed_keys
FilesOfCompletedKeys(p, store) == UNION {store[key] : key \in p.completed_keys}

\* C30: after every progress write of the Zipper that succeeded, completed_files is the
\* union of the file sets of the archives whose keys are in completed_keys, also in a
\* folder with more normal files than MAX_PROGRESS_FILES.
C30_CompletedFilesAreArchiveFiles ==
    [][progress' # progress
          => progress'.completed_files = FilesOfCompletedKeys(progress', archives')]_vars

\* ---------------------------------------------------------------- exit status
\* C31: a component that ended did so with a status other than 0 exactly when a fatal
\* start-up failure (credentials, instance lock, Staging Store) ended it; a normal end,
\* a shutdown included, has status 0.
C31_ExitStatusTellsFailure ==
    epc = "exited" =>
        /\ (efatal \in {"credentials", "lock", "store"} => estatus # 0)
        /\ (efatal = "none" => estatus = 0)

\* ---------------------------------------------------------------- termination of the split loop
\* C32: every invocation of pipeline_worker returns, whatever the Transfer Agent and the
\* disk watermark do.
C32_WorkerReturns == <>(tpc = "returned")

\* ---------------------------------------------------------------- the run over several folders
\* C33: once both pipelines of a folder have finished, the decision is made, the monitor
\* of the folder is stopped and the loop goes on; the run reaches the end of the index
\* and releases the instance lock, also with a progress lock installed for an earlier folder.
C33_EveryFolderEnds ==
    /\ (gpc = "pipelines" ~> (gpc = "top" /\ gmonitor = "none"))
    /\ <>(gpc = "released" /\ gidx = MaxIndex)

\* ---------------------------------------------------------------- Mapper writes under the lock
\* C34: a Mapper instance holds the instance lock in every step in which it writes to the
\* Staging Store, also after a signal, and no other instance holds the lock at that time.
C34_WritesOnlyUnderLock ==
    [][\A i \in hwrote' : hheld[i] /\ \A j \in Mappers \ {i} : ~hheld[j]]_vars

\* ---------------------------------------------------------------- one holder of the instance lock
\* C35: under every interleaving of the acquire steps (open, non-blocking flock) and the
\* release steps (unlock and close, unlink) of the instances started on one working
\* directory, at most one live instance considers itself holder of the instance lock.
C35_AtMostOneHolder ==
    \A i, j \in Instances : (ipc[i] = "running" /\ ipc[j] = "running") => i = j

\* ---------------------------------------------------------------- scratch tree of another process
\* pool process w has its unzip_* directory in use
TreeInUse(w) == kpc[w] \in {"dir", "unzipped", "uploading", "mark"}

\* C36: no step of one pool process changes the unzip_* directory another pool process
\* has in use, and an archive key is in processed_keys only if the complete tree of the
\* archive is at the destination.
C36_TreeOfOthersKept ==
    [][/\ \A w \in SWorkers :
             (TreeInUse(w) /\ kpc'[w] = kpc[w] /\ kdest'[w] = kdest[w])
                 => (kdir'[w] = kdir[w] /\ ktree'[w] = ktree[w])
       /\ \A w \in kmarked' : kdest'[w] = TreeFiles]_vars

\* ---------------------------------------------------------------- archives listed for a folder
\* the objects the components have stored for the folders processed so far
NamedKeys == UNION {fkeys[i] : i \in 1..fpos}

\* C37: the archives the Unzipper lists for a folder are exactly the archives the Zipper
\* uploaded for that folder, whatever the other folder of the index is called.
C37_ListedArchivesAreTheFolders ==
    \A i \in 1..fpos :
        ListedZips(NamedKeys, findex[i])
            = {s3_key(SafeName(findex[i]), part) : part \in PartNames}

\* ---------------------------------------------------------------- complete folder, processed keys
\* C38: when the Unzipper's stored document says folder_complete, every archive key listed
\* for the folder is in its processed_keys, also after a progress write that failed.
C38_CompleteFolderHasAllKeys ==
    uprogress.folder_complete => UKeys \subseteq uprogress.processed_keys

\* ---------------------------------------------------------------- list and manifest
\* C39: after every Mapper run, a folder whose normal list exists and whose scan found a
\* large file has its large-file manifest in the Staging Store.
C39_ListImpliesManifest ==
    mpc \in {"done", "killed"} =>
        \A f \in mfromscan :
            (mlist[f].exists /\ scan_folder_with_sizes(msource[f], TRUE).large_files # <<>>)
                => mlarge[f].exists

\* ---------------------------------------------------------------- read failures of the Zipper
\* main() takes a step in which a read of the progress document, of the normal-file list
\* or of the large-file manifest failed
ReadFailed ==
    \/ \E r1, r2, r3, r4, r5, r6, r7 \in BOOLEAN :
           ~(r1 /\ r2 /\ r3 /\ r4 /\ r5 /\ r6) /\ M_Start(r1, r2, r3, r4, r5, r6, r7)
    \/ \E r2 \in BOOLEAN : M_Join(FALSE, r2)

\* C40: a step of the Zipper in which a read of the list, the manifest or the progress
\* document failed neither overwrites the entries of the stored progress document nor
\* marks complete a folder whose files are not all accounted for.
C40_ReadFailureChangesNothing ==
    [][ReadFailed =>
          /\ progress.completed_keys \subseteq progress'.completed_keys
          /\ progress.completed_files \subseteq progress'.completed_files
          /\ progress.large_files_done \subseteq progress'.large_files_done
          /\ (progress'.folder_complete /\ ~progress.folder_complete) =>
                /\ ArchivedFiles(progress'.completed_keys) = NormalFiles
                /\ progress'.large_files_done = LargePaths]_vars

====
